---------------------------- MODULE Spec2Model ----------------------------
(***************************************************************************)
(* Query, aggregation and anomaly-detection engine of the FloatChat        *)
(* backend (backend/app): the two natural-language query handlers, the      *)
(* criteria extractors they call, the float search of crud.py and of        *)
(* services/geospatial.py, and the anomaly detector of main.py.             *)
(*                                                                         *)
(* Conventions.  A Python str is a sequence of one-character strings, so    *)
(* that lower(), "in", startswith and the regular expressions are computed  *)
(* and not assumed.  An Optional value is a sequence of length 0 (None),    *)
(* the value itself when it is a str or a list, and the one-element         *)
(* sequence <<x>> when it is a scalar x (a date, a status); None and the    *)
(* empty str or list are both falsy wherever the code tests them.           *)
(* Measured values are integers in hundredths of a unit, positions whole    *)
(* degrees, timestamps day numbers.                                         *)
(*                                                                         *)
(* Six specifications share the variables: Spec serves the two query        *)
(* endpoints over a store, SpecLarge serves them over a store with more     *)
(* floats than a query returns, SpecExtract runs the two criteria           *)
(* extractors alone, SpecAnomaly the anomaly detector on drawn baselines    *)
(* and latest values, SpecService the depth filter, the spatial step and    *)
(* the aggregation of GeospatialQueryService, SpecConcurrent two requests   *)
(* of POST /api/v1/query whose steps interleave.                            *)
(***************************************************************************)
EXTENDS Integers, Sequences, FiniteSets, TLC

VARIABLES store, config, req, resp

vars == <<store, config, req, resp>>

-----------------------------------------------------------------------------
(* Python str operations                                                   *)

UpperChars == <<"A","B","C","D","E","F","G","H","I","J","K","L","M","N","O","P","Q","R","S","T","U","V","W","X","Y","Z">>

LowerChars == <<"a","b","c","d","e","f","g","h","i","j","k","l","m","n","o","p","q","r","s","t","u","v","w","x","y","z">>

DigitChars == {"0","1","2","3","4","5","6","7","8","9"}

\* str.lower() on one character
LowerChar(c) == IF \E i \in 1..26 : UpperChars[i] = c THEN LowerChars[CHOOSE i \in 1..26 : UpperChars[i] = c] ELSE c

RECURSIVE lower(_)
\* str.lower()
lower(s) == IF s = <<>> THEN <<>> ELSE <<LowerChar(Head(s))>> \o lower(Tail(s))

\* k in s (substring test)
IsIn(k, s) == \E i \in 0..(Len(s) - Len(k)) : SubSeq(s, i + 1, i + Len(k)) = k

\* any(k in s for k in ks)
AnyIn(ks, s) == \E i \in 1..Len(ks) : IsIn(ks[i], s)

\* s.startswith(p)
StartsWith(s, p) == Len(p) <= Len(s) /\ SubSeq(s, 1, Len(p)) = p

\* len(s.split()): the number of maximal runs of non-blank characters
WordCount(s) == Cardinality({i \in 1..Len(s) : s[i] # " " /\ (i = 1 \/ s[i-1] = " ")})

\* the literal lit stands at position i of s
LitAt(s, i, lit) == i + Len(lit) - 1 <= Len(s) /\ SubSeq(s, i, i + Len(lit) - 1) = lit

RECURSIVE SpacesEnd(_, _)
\* \s+ from position i: the first position after the run of blanks starting at i
SpacesEnd(s, i) == IF i <= Len(s) /\ s[i] = " " THEN SpacesEnd(s, i + 1) ELSE i

RECURSIVE DigitsEnd(_, _)
\* \d+ from position i: the first position after the run of digits starting at i
DigitsEnd(s, i) == IF i <= Len(s) /\ s[i] \in DigitChars THEN DigitsEnd(s, i + 1) ELSE i

\* (\d+) at position i: the digits matched, <<>> when there is none
DigitsAt(s, i) == SubSeq(s, i, DigitsEnd(s, i) - 1)

\* lit \s+ (?:id\s+)? (\d+) at position i, the optional group tried first
\* (withId) and hash for a literal # before the digits: the group, or <<>>
PatternAt(s, i, lit, withId, hash) ==
    IF ~LitAt(s, i, lit) THEN <<>>
    ELSE LET a == i + Len(lit)
             b == SpacesEnd(s, a)
             c == SpacesEnd(s, b + 2)
         IN  IF b = a THEN <<>>
             ELSE IF hash THEN (IF LitAt(s, b, <<"#">>) THEN DigitsAt(s, b + 1) ELSE <<>>)
             ELSE IF withId /\ LitAt(s, b, <<"i","d">>) /\ c > b + 2 /\ DigitsAt(s, c) # <<>> THEN DigitsAt(s, c)
             ELSE DigitsAt(s, b)

\* re.search(pattern, s).group(1): the leftmost match, <<>> when none
Search(s, lit, withId, hash) ==
    LET hits == {i \in 1..Len(s) : PatternAt(s, i, lit, withId, hash) # <<>>}
    IN  IF hits = {} THEN <<>>
        ELSE PatternAt(s, CHOOSE i \in hits : \A j \in hits : i <= j, lit, withId, hash)

\* ','.join(xs)
RECURSIVE JoinComma(_)
JoinComma(xs) == IF xs = <<>> THEN <<>> ELSE IF Len(xs) = 1 THEN xs[1] ELSE xs[1] \o <<",">> \o JoinComma(Tail(xs))

\* s.split(',')
RECURSIVE SplitComma(_)
SplitComma(s) ==
    LET cs == {i \in 1..Len(s) : s[i] = ","}
    IN  IF cs = {} THEN <<s>>
        ELSE LET k == CHOOSE i \in cs : \A j \in cs : i <= j
             IN  <<SubSeq(s, 1, k - 1)>> \o SplitComma(SubSeq(s, k + 1, Len(s)))

-----------------------------------------------------------------------------
(* schemas.QueryParameters                                                 *)

None == <<>>

\* @validator('bbox')
validate_bbox(v) ==
    v = None \/ ( /\ Len(v) = 4
                  /\ -180 <= v[1] /\ v[1] <= 180 /\ -180 <= v[3] /\ v[3] <= 180
                  /\ -90 <= v[2] /\ v[2] <= 90 /\ -90 <= v[4] /\ v[4] <= 90
                  /\ ~(v[1] >= v[3] \/ v[2] >= v[4]) )

\* @validator('depth_range')
validate_depth_range(v) ==
    v = None \/ ( /\ Len(v) = 2
                  /\ ~(v[1] < 0 \/ v[2] < 0)
                  /\ ~(v[1] >= v[2]) )

\* The fields the model declares.  It declares no status field: a status
\* keyword argument is an extra, which the model ignores, and reading
\* parameters.status raises AttributeError.
QueryParameterFields == {"location", "bbox", "start_date", "end_date", "variables", "depth_range", "general_search_term"}

\* The keyword arguments of a construction, with None for those not given
NoArgs == [location |-> None, bbox |-> None, start_date |-> None, end_date |-> None, variables |-> <<>>, depth_range |-> None, status |-> None, general_search_term |-> None]

\* QueryParameters(**kw): the validators run, then the declared fields are kept
QueryParametersValid(kw) == validate_bbox(kw.bbox) /\ validate_depth_range(kw.depth_range)

QueryParameters(kw) == [f \in QueryParameterFields |-> kw[f]]

\* hasattr(parameters, name)
HasAttr(p, name) == name \in DOMAIN p

-----------------------------------------------------------------------------
(* services/ai_service.py: AIService._extract_basic_parameters             *)

\* [x] if cond else []
Item(cond, x) == IF cond THEN <<x>> ELSE <<>>

\* float_id_patterns, in order, as (literal, optional id group, literal #)
float_id_patterns == << <<<<"f","l","o","a","t">>, TRUE, FALSE>>, <<<<"f","l","o","a","t">>, FALSE, TRUE>>, <<<<"i","d">>, FALSE, FALSE>>, <<<<"w","m","o">>, TRUE, FALSE>> >>

RECURSIVE FirstFloatId(_, _)
\* the loop over float_id_patterns: group(1) of the first pattern that matches
FirstFloatId(ql, k) ==
    IF k > Len(float_id_patterns) THEN <<>>
    ELSE LET g == Search(ql, float_id_patterns[k][1], float_id_patterns[k][2], float_id_patterns[k][3])
         IN  IF g # <<>> THEN g ELSE FirstFloatId(ql, k + 1)

FLOAT_ID_PREFIX == <<"F","L","O","A","T","_","I","D",":">>

COMPARISON_PREFIX == <<"C","O","M","P","A","R","I","S","O","N",":">>

irrelevant_keywords == <<<<"w","e","a","t","h","e","r">>, <<"s","t","o","c","k">>, <<"n","e","w","s">>, <<"s","p","o","r","t","s">>, <<"m","o","v","i","e">>, <<"m","u","s","i","c">>, <<"r","e","c","i","p","e">>, <<"g","a","m","e">>, <<"j","o","k","e">>, <<"s","t","o","r","y">>, <<"s","o","n","g">>>>

oceanographic_keywords == <<<<"f","l","o","a","t">>, <<"o","c","e","a","n">>, <<"t","e","m","p","e","r","a","t","u","r","e">>, <<"s","a","l","i","n","i","t","y">>, <<"p","r","e","s","s","u","r","e">>, <<"d","e","p","t","h">>, <<"w","a","t","e","r">>, <<"s","e","a">>, <<"m","a","r","i","n","e">>, <<"o","x","y","g","e","n">>, <<"p","a","c","i","f","i","c">>, <<"a","t","l","a","n","t","i","c">>, <<"i","n","d","i","a","n">>, <<"d","a","t","a">>, <<"m","e","a","s","u","r","e","m","e","n","t">>>>

casual_phrases == <<<<"h","e","l","l","o">>, <<"h","i">>, <<"h","e","y">>, <<"t","h","a","n","k","s">>, <<"t","h","a","n","k"," ","y","o","u">>, <<"b","y","e">>, <<"g","o","o","d","b","y","e">>>>

PacificOcean == <<"P","a","c","i","f","i","c"," ","O","c","e","a","n">>

AtlanticOcean == <<"A","t","l","a","n","t","i","c"," ","O","c","e","a","n">>

IndianOcean == <<"I","n","d","i","a","n"," ","O","c","e","a","n">>

ArcticOcean == <<"A","r","c","t","i","c"," ","O","c","e","a","n">>

SouthernOcean == <<"S","o","u","t","h","e","r","n"," ","O","c","e","a","n">>

\* the variables list, in the order the code appends
basic_variables(ql) ==
    Item(AnyIn(<<<<"t","e","m","p","e","r","a","t","u","r","e">>, <<"t","e","m","p">>, <<"w","a","r","m">>, <<"c","o","l","d">>, <<"h","e","a","t">>>>, ql), "temperature")
    \o Item(AnyIn(<<<<"s","a","l","i","n","i","t","y">>, <<"s","a","l","t">>, <<"s","a","l","i","n","e">>>>, ql), "salinity")
    \o Item(AnyIn(<<<<"p","r","e","s","s","u","r","e">>, <<"d","e","p","t","h">>, <<"d","e","e","p">>>>, ql), "pressure")
    \o Item(AnyIn(<<<<"o","x","y","g","e","n">>, <<"o","2">>, <<"d","i","s","s","o","l","v","e","d"," ","o","x","y","g","e","n">>, <<"d","o">>>>, ql), "dissolved_oxygen")
    \o Item(IsIn(<<"p","h">>, ql) \/ IsIn(<<"a","c","i","d","i","t","y">>, ql), "ph")
    \o Item(IsIn(<<"n","i","t","r","a","t","e">>, ql) \/ IsIn(<<"n","i","t","r","o","g","e","n">>, ql), "nitrate")
    \o Item(IsIn(<<"c","h","l","o","r","o","p","h","y","l","l">>, ql) \/ IsIn(<<"c","h","l">>, ql), "chlorophyll")

\* comparison_match: the oceans named, when a comparison word is present and
\* at least two oceans are named; <<>> (None) otherwise
comparison_match(ql) ==
    IF IsIn(<<"c","o","m","p","a","r","e">>, ql) \/ IsIn(<<"b","e","t","w","e","e","n">>, ql) \/ IsIn(<<"v","e","r","s","u","s">>, ql) \/ IsIn(<<"v","s">>, ql)
    THEN LET oceans == Item(IsIn(<<"p","a","c","i","f","i","c">>, ql), PacificOcean)
                       \o Item(IsIn(<<"a","t","l","a","n","t","i","c">>, ql), AtlanticOcean)
                       \o Item(IsIn(<<"i","n","d","i","a","n">>, ql), IndianOcean)
                       \o Item(IsIn(<<"a","r","c","t","i","c">>, ql), ArcticOcean)
                       \o Item(IsIn(<<"s","o","u","t","h","e","r","n">>, ql) \/ IsIn(<<"s","o","u","t","h">>, ql), SouthernOcean)
         IN  IF Len(oceans) >= 2 THEN oceans ELSE <<>>
    ELSE <<>>

\* location: the single location, only when no comparison was detected
basic_location(ql) ==
    IF comparison_match(ql) # <<>> THEN None
    ELSE IF IsIn(<<"p","a","c","i","f","i","c">>, ql) THEN PacificOcean
    ELSE IF IsIn(<<"a","t","l","a","n","t","i","c">>, ql) THEN AtlanticOcean
    ELSE IF IsIn(<<"i","n","d","i","a","n">>, ql) THEN IndianOcean
    ELSE IF IsIn(<<"a","r","c","t","i","c">>, ql) THEN ArcticOcean
    ELSE IF IsIn(<<"s","o","u","t","h","e","r","n">>, ql) THEN SouthernOcean
    ELSE None

\* status: the if / elif chain, 'active' tested first
basic_status(ql) ==
    IF IsIn(<<"a","c","t","i","v","e">>, ql) THEN <<"active">>
    ELSE IF IsIn(<<"i","n","a","c","t","i","v","e">>, ql) THEN <<"inactive">>
    ELSE IF IsIn(<<"m","a","i","n","t","e","n","a","n","c","e">>, ql) THEN <<"maintenance">>
    ELSE None

\* The keyword arguments _extract_basic_parameters hands to QueryParameters
basic_arguments(question) ==
    LET ql == lower(question)
        fid == FirstFloatId(ql, 1)
        cm == comparison_match(ql)
        variables == basic_variables(ql)
        location == basic_location(ql)
        status == basic_status(ql)
    IN  IF fid # <<>> THEN [NoArgs EXCEPT !.general_search_term = FLOAT_ID_PREFIX \o fid]
        ELSE IF AnyIn(irrelevant_keywords, ql) THEN NoArgs
        ELSE IF ~AnyIn(oceanographic_keywords, ql) /\ WordCount(ql) < 8 /\ AnyIn(casual_phrases, ql) THEN NoArgs
        ELSE [NoArgs EXCEPT !.location = location,
                            !.variables = variables,
                            !.status = status,
                            !.general_search_term =
                                IF cm # <<>> THEN COMPARISON_PREFIX \o JoinComma(cm)
                                ELSE IF ~(status # None \/ location # None \/ variables # <<>>) THEN question
                                ELSE None]

_extract_basic_parameters(question) == QueryParameters(basic_arguments(question))

-----------------------------------------------------------------------------
(* services/ai_query_service.py: AIQueryService._fallback_extraction       *)

\* variable_keywords, in dictionary order
variable_keywords == << <<"temperature", <<<<"t","e","m","p","e","r","a","t","u","r","e">>, <<"t","e","m","p">>, <<"t","h","e","r","m","a","l">>>> >>,
                        <<"salinity", <<<<"s","a","l","i","n","i","t","y">>, <<"s","a","l","t">>, <<"s","a","l">>>> >>,
                        <<"pressure", <<<<"p","r","e","s","s","u","r","e">>, <<"d","e","p","t","h">>, <<"p","r","e","s","s">>>> >>,
                        <<"dissolved_oxygen", <<<<"o","x","y","g","e","n">>, <<"o","2">>, <<"d","i","s","s","o","l","v","e","d"," ","o","x","y","g","e","n">>>> >>,
                        <<"ph", <<<<"p","h">>, <<"a","c","i","d","i","t","y">>, <<"a","l","k","a","l","i","n","i","t","y">>>> >>,
                        <<"nitrate", <<<<"n","i","t","r","a","t","e">>, <<"n","i","t","r","o","g","e","n">>, <<"n","o","3">>>> >>,
                        <<"chlorophyll", <<<<"c","h","l","o","r","o","p","h","y","l","l">>, <<"c","h","l">>, <<"p","h","y","t","o","p","l","a","n","k","t","o","n">>>> >> >>

\* location_keywords, in dictionary order
location_keywords == << <<PacificOcean, <<<<"p","a","c","i","f","i","c">>>> >>,
                        <<AtlanticOcean, <<<<"a","t","l","a","n","t","i","c">>>> >>,
                        <<IndianOcean, <<<<"i","n","d","i","a","n">>>> >>,
                        <<SouthernOcean, <<<<"s","o","u","t","h","e","r","n">>, <<"a","n","t","a","r","c","t","i","c">>>> >>,
                        <<ArcticOcean, <<<<"a","r","c","t","i","c">>>> >>,
                        <<<<"M","e","d","i","t","e","r","r","a","n","e","a","n"," ","S","e","a">>, <<<<"m","e","d","i","t","e","r","r","a","n","e","a","n">>>> >>,
                        <<<<"A","r","a","b","i","a","n"," ","S","e","a">>, <<<<"a","r","a","b","i","a","n">>>> >> >>

RECURSIVE fallback_variables(_, _)
fallback_variables(ql, k) ==
    IF k > Len(variable_keywords) THEN <<>>
    ELSE Item(AnyIn(variable_keywords[k][2], ql), variable_keywords[k][1]) \o fallback_variables(ql, k + 1)

RECURSIVE fallback_location(_, _)
\* the first location whose keyword occurs (break)
fallback_location(ql, k) ==
    IF k > Len(location_keywords) THEN None
    ELSE IF AnyIn(location_keywords[k][2], ql) THEN location_keywords[k][1]
    ELSE fallback_location(ql, k + 1)

\* The questions of the model carry no year (20dd) and no 'last month', so
\* start_date and end_date stay None.
_fallback_extraction(question) ==
    LET ql == lower(question)
        variables == fallback_variables(ql, 1)
        location == fallback_location(ql, 1)
    IN  QueryParameters([NoArgs EXCEPT !.location = location,
                                       !.variables = variables,
                                       !.general_search_term = IF ~(variables # <<>> \/ location # None) THEN question ELSE None])

-----------------------------------------------------------------------------
(* The upstream extractor.  One call has one outcome:                      *)
(*   error, timeout  the call raised                                       *)
(*   text            the reply is not JSON; it may still hold the           *)
(*                   fragments "location": "..." and "variables": [...]     *)
(*   nondict         the reply is JSON, but no object                       *)
(*   json            the reply is a JSON object with the keys of the prompt *)
(*                   (data), which the validators may still reject          *)

LlmError == [kind |-> "error", data |-> NoArgs, frag_location |-> FALSE, frag_variables |-> FALSE]

LlmTimeout == [kind |-> "timeout", data |-> NoArgs, frag_location |-> FALSE, frag_variables |-> FALSE]

LlmNonDict == [kind |-> "nondict", data |-> NoArgs, frag_location |-> FALSE, frag_variables |-> FALSE]

LlmText(hasLoc, loc, hasVars, vs) == [kind |-> "text", data |-> [NoArgs EXCEPT !.location = loc, !.variables = vs], frag_location |-> hasLoc, frag_variables |-> hasVars]

LlmJson(kw) == [kind |-> "json", data |-> kw, frag_location |-> kw.location # None, frag_variables |-> TRUE]

\* the call raised: _call_llm re-raises, chain invocation re-raises
LlmRaised(llm) == llm.kind \in {"error", "timeout"}

-----------------------------------------------------------------------------
(* services/ai_service.py: AIService.process_query                         *)

\* _parse_ai_response: "ok" with the parameters, or "raise" for an exception
\* its except clause (JSONDecodeError, ValueError) does not catch
_parse_ai_response(llm) ==
    IF llm.kind = "text" THEN [outcome |-> "ok", parameters |-> QueryParameters(NoArgs)]
    ELSE IF llm.kind = "nondict" THEN [outcome |-> "raise", parameters |-> QueryParameters(NoArgs)]
    ELSE IF QueryParametersValid(llm.data) THEN [outcome |-> "ok", parameters |-> QueryParameters(llm.data)]
    ELSE [outcome |-> "ok", parameters |-> QueryParameters(NoArgs)]

\* Whether process_query ends in _extract_basic_parameters
process_query_falls_back(cfg, llm) ==
    \/ ~cfg.groq_api_key
    \/ LlmRaised(llm)
    \/ _parse_ai_response(llm).outcome = "raise"

process_query(cfg, question, llm) ==
    IF process_query_falls_back(cfg, llm) THEN _extract_basic_parameters(question)
    ELSE _parse_ai_response(llm).parameters

-----------------------------------------------------------------------------
(* services/ai_query_service.py: AIQueryService.process_ai_query           *)

\* _extract_partial_parameters: the fragments the two regular expressions
\* find, and the fallback only when they find none
_extract_partial_parameters(llm, question) ==
    IF llm.frag_location \/ llm.frag_variables
    THEN QueryParameters([NoArgs EXCEPT !.location = IF llm.frag_location THEN llm.data.location ELSE None,
                                        !.variables = IF llm.frag_variables THEN llm.data.variables ELSE <<>>])
    ELSE _fallback_extraction(question)

\* _parse_llm_response: "ok" with the parameters, or "raise" for the TypeError
\* of QueryParameters(**x) on a value that is no mapping
_parse_llm_response(llm, question) ==
    IF llm.kind = "text" THEN [outcome |-> "ok", parameters |-> _extract_partial_parameters(llm, question)]
    ELSE IF llm.kind = "nondict" THEN [outcome |-> "raise", parameters |-> QueryParameters(NoArgs)]
    ELSE IF QueryParametersValid(llm.data) THEN [outcome |-> "ok", parameters |-> QueryParameters(llm.data)]
    ELSE [outcome |-> "ok", parameters |-> _extract_partial_parameters(llm, question)]

process_ai_query(cfg, question, llm) ==
    IF ~cfg.groq_api_key THEN _fallback_extraction(question)
    ELSE IF LlmRaised(llm) THEN _fallback_extraction(question)
    ELSE IF _parse_llm_response(llm, question).outcome = "raise" THEN _fallback_extraction(question)
    ELSE _parse_llm_response(llm, question).parameters

-----------------------------------------------------------------------------
(* models.py: the store.  store maps a float id (Float.id) to the float,    *)
(* its profiles and their measurements:                                    *)
(*   float       [wmo_id, status, institution, project_name, pi_name,       *)
(*                platform_type, profiles]                                  *)
(*   profile     [timestamp, latitude, longitude, measurements]; timestamp  *)
(*               is a day number and Profile.location is the point          *)
(*               (longitude, latitude), as every writer of the store sets it*)
(*   measurement [pressure, values], values holding the non-null columns    *)

\* The nullable value columns of Measurement a variable name can address
ValueColumns == {"temperature", "salinity", "dissolved_oxygen", "ph", "nitrate", "chlorophyll"}

\* hasattr(Measurement, variable), for the variable names of the model
MeasurementHasAttr(variable) == variable = "pressure" \/ variable \in ValueColumns

\* getattr(measurement, variable) is not None
ColumnNotNull(m, variable) == variable = "pressure" \/ variable \in DOMAIN m.values

\* getattr(measurement, variable), when it is not None
ColumnValue(m, variable) == IF variable = "pressure" THEN m.pressure ELSE m.values[variable]

FloatIdsOf(st) == DOMAIN st

ProfilesOf(st, f) == {st[f].profiles[i] : i \in 1..Len(st[f].profiles)}

MeasurementsOf(p) == {p.measurements[i] : i \in 1..Len(p.measurements)}

\* the sets of k rows of S, rows being identified by their ids
Dropped(S, k) == {{s[i] : i \in 1..k} : s \in {t \in [1..k -> S] : \A i, j \in 1..k : i < j => t[i] < t[j]}}

\* A seeded fault: the query without its LIMIT
Limit_absent(rows, n) == {rows}

\* SQL LIMIT n without ORDER BY: any n of the rows (all but any
\* Cardinality(rows) - n of them), all of them when there are no more than n
Limit(rows, n) == IF Cardinality(rows) <= n THEN {rows} ELSE {rows \ d : d \in Dropped(rows, Cardinality(rows) - n)}

\* column ILIKE '%term%'; a NULL column (None) matches nothing
ILike(column, term) == column # None /\ IsIn(lower(term), lower(column))

-----------------------------------------------------------------------------
(* crud.py: find_floats_by_params                                          *)

\* A seeded fault: the envelope test with the latitude comparison left out
ST_Intersects_longitude_only(p, bbox) ==
    /\ bbox[1] <= p.longitude /\ p.longitude <= bbox[3]

\* ST_Intersects(Profile.location, bbox_geom): the point lies in the closed
\* rectangle of the bounding box
ST_Intersects(p, bbox) ==
    /\ bbox[1] <= p.longitude /\ p.longitude <= bbox[3]
    /\ bbox[2] <= p.latitude /\ p.latitude <= bbox[4]

\* spatial_filter
crud_spatial_filter(st, bbox) == {f \in FloatIdsOf(st) : \E p \in ProfilesOf(st, f) : ST_Intersects(p, bbox)}

\* A seeded fault: the start bound compared with > instead of >=
crud_temporal_filter_exclusive(st, start_date, end_date) ==
    {f \in FloatIdsOf(st) : \E p \in ProfilesOf(st, f) :
        /\ start_date # None => p.timestamp > start_date[1]
        /\ end_date # None => p.timestamp <= end_date[1]}

\* temporal_subquery
crud_temporal_filter(st, start_date, end_date) ==
    {f \in FloatIdsOf(st) : \E p \in ProfilesOf(st, f) :
        /\ start_date # None => p.timestamp >= start_date[1]
        /\ end_date # None => p.timestamp <= end_date[1]}

\* variable_filters: the variables that name a column of Measurement
crud_variable_columns(variables) == {variables[i] : i \in {j \in 1..Len(variables) : MeasurementHasAttr(variables[j])}}

\* variable_subquery
crud_variable_filter(st, variables) ==
    {f \in FloatIdsOf(st) : \E p \in ProfilesOf(st, f) : \E m \in MeasurementsOf(p) :
        \E v \in crud_variable_columns(variables) : ColumnNotNull(m, v)}

\* text_filters
crud_text_filter(st, term) ==
    {f \in FloatIdsOf(st) :
        \/ ILike(st[f].wmo_id, term)
        \/ ILike(st[f].institution, term)
        \/ ILike(st[f].project_name, term)
        \/ ILike(st[f].platform_type, term)}

\* The floats the query selects before LIMIT
crud_matching(st, params) ==
    (IF HasAttr(params, "bbox") /\ params.bbox # None THEN crud_spatial_filter(st, params.bbox) ELSE FloatIdsOf(st))
    \cap (IF (HasAttr(params, "start_date") /\ params.start_date # None) \/ (HasAttr(params, "end_date") /\ params.end_date # None)
          THEN crud_temporal_filter(st, IF HasAttr(params, "start_date") THEN params.start_date ELSE None,
                                        IF HasAttr(params, "end_date") THEN params.end_date ELSE None)
          ELSE FloatIdsOf(st))
    \cap (IF HasAttr(params, "variables") /\ params.variables # <<>> /\ crud_variable_columns(params.variables) # {}
          THEN crud_variable_filter(st, params.variables) ELSE FloatIdsOf(st))
    \cap (IF HasAttr(params, "general_search_term") /\ params.general_search_term # None
          THEN crud_text_filter(st, params.general_search_term) ELSE FloatIdsOf(st))

\* query.limit(100)
crud_limit == 100

\* The possible results of find_floats_by_params: the sets of float ids of
\* the rows returned
find_floats_by_params(st, params) == Limit(crud_matching(st, params), crud_limit)

-----------------------------------------------------------------------------
(* services/geospatial.py: GeospatialQueryService                          *)

\* _apply_bbox_filter
_apply_bbox_filter(st, bbox) ==
    {f \in FloatIdsOf(st) : \E p \in ProfilesOf(st, f) :
        /\ p.latitude >= bbox[2] /\ p.latitude <= bbox[4]
        /\ p.longitude >= bbox[1] /\ p.longitude <= bbox[3]}

\* region_bounds, in dictionary order
region_bounds == << <<<<"p","a","c","i","f","i","c">>, <<-180, -60, -70, 60>> >>,
                    <<<<"a","t","l","a","n","t","i","c">>, <<-80, -60, 20, 70>> >>,
                    <<<<"i","n","d","i","a","n">>, <<20, -60, 120, 30>> >>,
                    <<<<"a","r","c","t","i","c">>, <<-180, 66, 180, 90>> >>,
                    <<<<"s","o","u","t","h","e","r","n">>, <<-180, -90, 180, -60>> >>,
                    <<<<"s","o","u","t","h">>, <<-180, -90, 180, -60>> >> >>

\* matched_regions: the indices of the regions whose key occurs in the name
matched_regions(location) == {k \in 1..Len(region_bounds) : IsIn(region_bounds[k][1], lower(location))}

\* A seeded fault: the last matched region used instead of the first
_apply_location_filter_last_match(st, location) ==
    IF matched_regions(location) # {}
    THEN _apply_bbox_filter(st, region_bounds[CHOOSE k \in matched_regions(location) : \A j \in matched_regions(location) : k >= j][2])
    ELSE FloatIdsOf(st)

\* _apply_location_filter: the first matched region's box, no filter when
\* none matches
_apply_location_filter(st, location) ==
    IF matched_regions(location) # {}
    THEN _apply_bbox_filter(st, region_bounds[CHOOSE k \in matched_regions(location) : \A j \in matched_regions(location) : k <= j][2])
    ELSE FloatIdsOf(st)

\* _apply_temporal_filter
_apply_temporal_filter(st, start_date, end_date) ==
    {f \in FloatIdsOf(st) : \E p \in ProfilesOf(st, f) :
        /\ start_date # None => p.timestamp >= start_date[1]
        /\ end_date # None => p.timestamp <= end_date[1]}

\* _apply_variable_filter
_apply_variable_filter(st, variables) ==
    LET cols == {variables[i] : i \in {j \in 1..Len(variables) : MeasurementHasAttr(variables[j])}}
    IN  IF cols # {}
        THEN {f \in FloatIdsOf(st) : \E p \in ProfilesOf(st, f) : \E m \in MeasurementsOf(p) : \E v \in cols : ColumnNotNull(m, v)}
        ELSE FloatIdsOf(st)

\* A seeded fault: the depth in meters used as the pressure in dbar
_apply_depth_filter_unconverted(st, depth_range) ==
    {f \in FloatIdsOf(st) : \E p \in ProfilesOf(st, f) : \E m \in MeasurementsOf(p) :
        /\ m.pressure >= depth_range[1]
        /\ m.pressure <= depth_range[2]}

\* depth * 1.02 against a pressure in whole dbar, in hundredths: the
\* comparison pressure >= depth * 1.02 is 100 * pressure >= 102 * depth
_apply_depth_filter(st, depth_range) ==
    {f \in FloatIdsOf(st) : \E p \in ProfilesOf(st, f) : \E m \in MeasurementsOf(p) :
        /\ 100 * m.pressure >= 102 * depth_range[1]
        /\ 100 * m.pressure <= 102 * depth_range[2]}

\* _apply_text_filter
_apply_text_filter(st, term) ==
    {f \in FloatIdsOf(st) :
        \/ ILike(st[f].institution, term)
        \/ ILike(st[f].project_name, term)
        \/ ILike(st[f].pi_name, term)
        \/ ILike(st[f].platform_type, term)}

\* The WHERE clauses query_floats_by_parameters adds after the status clause
geo_matching(st, p) ==
    (IF p.bbox # None THEN _apply_bbox_filter(st, p.bbox)
     ELSE IF p.location # None THEN _apply_location_filter(st, p.location)
     ELSE FloatIdsOf(st))
    \cap (IF p.start_date # None \/ p.end_date # None THEN _apply_temporal_filter(st, p.start_date, p.end_date) ELSE FloatIdsOf(st))
    \cap (IF p.variables # <<>> THEN _apply_variable_filter(st, p.variables) ELSE FloatIdsOf(st))
    \cap (IF p.depth_range # None THEN _apply_depth_filter(st, p.depth_range) ELSE FloatIdsOf(st))
    \cap (IF p.general_search_term # None THEN _apply_text_filter(st, p.general_search_term) ELSE FloatIdsOf(st))

\* query_floats_by_parameters: the possible outcomes.  Its first statement
\* reads parameters.status, which raises AttributeError on an object without
\* that attribute; with it, the status clause comes first.
query_floats_by_parameters(st, p, limit) ==
    IF ~HasAttr(p, "status") THEN {[outcome |-> "raise", floats |-> {}]}
    ELSE {[outcome |-> "ok", floats |-> fs] :
            fs \in Limit(geo_matching(st, p) \cap (IF p.status # None THEN {f \in FloatIdsOf(st) : st[f].status = p.status[1]} ELSE FloatIdsOf(st)), limit)}

-----------------------------------------------------------------------------
(* crud.py: the two reads of the anomaly detector                          *)

RECURSIVE SetToSeq(_)
\* the integers of S in ascending order
SetToSeq(S) == IF S = {} THEN <<>> ELSE LET m == CHOOSE x \in S : \A y \in S : x <= y IN <<m>> \o SetToSeq(S \ {m})

RECURSIVE Flatten(_)
\* the concatenation of a sequence of sequences
Flatten(ss) == IF ss = <<>> THEN <<>> ELSE Head(ss) \o Flatten(Tail(ss))

RECURSIVE Sum(_)
Sum(xs) == IF xs = <<>> THEN 0 ELSE Head(xs) + Sum(Tail(xs))

SumSq(xs) == Sum([i \in 1..Len(xs) |-> xs[i] * xs[i]])

\* The rows (measurements) of the profiles of float f that are not older
\* than the cutoff: Profile.timestamp >= cutoff_date
RowsOfFloat(st, f, cutoff_date) ==
    Flatten([i \in 1..Len(st[f].profiles) |-> IF st[f].profiles[i].timestamp >= cutoff_date THEN st[f].profiles[i].measurements ELSE <<>>])

\* days_back=30 in the call of process_intelligent_query
days_back == 30

\* .limit(1000)
baseline_limit == 1000

\* The rows of the baseline query before LIMIT: the measurements of the
\* profiles not older than the cutoff, of the floats in float_ids (of every
\* float when float_ids is empty)
baseline_rows(st, float_ids, now) ==
    LET fs == IF float_ids # {} THEN float_ids \cap FloatIdsOf(st) ELSE FloatIdsOf(st)
        order == SetToSeq(fs)
    IN  Flatten([k \in 1..Len(order) |-> RowsOfFloat(st, order[k], now - days_back)])

\* The rows LIMIT leaves: all of them up to the limit, any baseline_limit of
\* them beyond
baseline_measurements(st, float_ids, now) ==
    LET rows == baseline_rows(st, float_ids, now)
    IN  IF Len(rows) <= baseline_limit THEN {rows}
        ELSE {[k \in 1..baseline_limit |-> rows[SetToSeq(I)[k]]] : I \in {J \in SUBSET (1..Len(rows)) : Cardinality(J) = baseline_limit}}

\* the values list of one variable: the non-null values of the rows
ValuesOf(rows, variable) == Flatten([k \in 1..Len(rows) |-> Item(ColumnNotNull(rows[k], variable), ColumnValue(rows[k], variable))])

\* get_recent_measurements_for_anomaly_detection: the possible results, each
\* a dictionary from the variables that name a column to their values; the
\* except clause turns a failed read into the empty dictionary
get_recent_measurements_for_anomaly_detection(st, float_ids, variables, now, failed) ==
    IF failed THEN {<<>>}
    ELSE {[v \in {variables[i] : i \in {j \in 1..Len(variables) : MeasurementHasAttr(variables[j])}} |-> ValuesOf(rows, v)] :
            rows \in baseline_measurements(st, float_ids, now)}

\* the columns of a row of the latest-measurement query
latest_row_columns == {"temperature", "salinity", "pressure", "dissolved_oxygen", "ph"}

\* latest_profile_subquery: max(Profile.timestamp) of a float with profiles
max_timestamp(st, f) == CHOOSE t \in {p.timestamp : p \in ProfilesOf(st, f)} : \A p \in ProfilesOf(st, f) : p.timestamp <= t

\* The rows of float f in the latest-measurement query
latest_rows(st, f) == UNION {MeasurementsOf(p) : p \in {q \in ProfilesOf(st, f) : q.timestamp = max_timestamp(st, f)}}

\* The rows of f that can come first under ORDER BY pressure DESC
first_rows(st, f) == {m \in latest_rows(st, f) : \A n \in latest_rows(st, f) : n.pressure <= m.pressure}

\* The measurements dictionary built from the first row of a float
latest_values(m, variables) ==
    [v \in {variables[i] : i \in {j \in 1..Len(variables) : variables[j] \in latest_row_columns /\ ColumnNotNull(m, variables[j])}} |-> ColumnValue(m, v)]

\* get_latest_measurements_for_floats: the possible results, each the
\* dictionary in insertion order as a sequence of [float_id, measurements].
\* Rows come by descending pressure, rows of equal pressure in any order;
\* the except clause turns a failed read into the empty dictionary
get_latest_measurements_for_floats(st, float_ids, variables, failed) ==
    IF failed THEN {<<>>}
    ELSE LET fs == {f \in float_ids \cap FloatIdsOf(st) : ProfilesOf(st, f) # {} /\ latest_rows(st, f) # {}}
             n == Cardinality(fs)
             top(f) == (CHOOSE m \in first_rows(st, f) : TRUE).pressure
             orders == {s \in [1..n -> fs] : /\ \A i, j \in 1..n : i # j => s[i] # s[j]
                                             /\ \A i, j \in 1..n : i < j => top(s[i]) >= top(s[j])}
             picks == {c \in [fs -> UNION {first_rows(st, f) : f \in fs}] : \A f \in fs : c[f] \in first_rows(st, f)}
         IN  {[k \in 1..n |-> [float_id |-> s[k], measurements |-> latest_values(c[s[k]], variables)]] : s \in orders, c \in picks}

-----------------------------------------------------------------------------
(* main.py: _detect_anomalies                                              *)
(*                                                                         *)
(* statistics.mean and statistics.stdev are computed exactly: with n values *)
(* of sum s and sum of squares q, mean = s / n and stdev^2 =                *)
(* (n q - s^2) / (n (n - 1)), so every comparison below is the code's       *)
(* comparison multiplied through by positive integers.                      *)

\* len(baseline_values) < 10
min_baseline == 10

\* std_val == 0
std_is_zero(xs) == Len(xs) <= 1 \/ Len(xs) * SumSq(xs) - Sum(xs) * Sum(xs) = 0

\* z_score > 2.0, for z_score = abs(v - mean) / std:
\* (n v - s)^2 (n - 1) > 2^2 n (n q - s^2)
z_threshold == 2

\* A seeded fault: z_score >= 2.0 in place of z_score > 2.0
z_score_reaches(v, xs) ==
    LET n == Len(xs)
        d == n * v - Sum(xs)
    IN  d * d * (n - 1) >= 2 * 2 * n * (n * SumSq(xs) - Sum(xs) * Sum(xs))

z_score_exceeds(v, xs) ==
    LET n == Len(xs)
        d == n * v - Sum(xs)
    IN  d * d * (n - 1) > z_threshold * z_threshold * n * (n * SumSq(xs) - Sum(xs) * Sum(xs))

\* current_value > mean_val
above_mean(v, xs) == Len(xs) * v > Sum(xs)

\* "high" if current_value > mean_val else "low"
direction_of(v, xs) == IF above_mean(v, xs) THEN "high" ELSE "low"

\* A seeded fault: the context chosen by the variable alone
context_of_either_direction(variable, direction) ==
    IF variable = "temperature" THEN "marine heatwave"
    ELSE IF variable = "salinity" THEN "freshwater input"
    ELSE IF variable = "dissolved_oxygen" THEN "hypoxic conditions"
    ELSE "none"

\* the scientific context appended to the text, "none" when there is none
context_of(variable, direction) ==
    IF variable = "temperature" /\ direction = "high" THEN "marine heatwave"
    ELSE IF variable = "salinity" /\ direction = "low" THEN "freshwater input"
    ELSE IF variable = "dissolved_oxygen" /\ direction = "low" THEN "hypoxic conditions"
    ELSE "none"

\* A seeded fault: len(baseline_values) <= 10 in place of < 10
variable_scanned_above_ten(baseline_data, variable) ==
    /\ variable \in DOMAIN baseline_data
    /\ ~(Len(baseline_data[variable]) <= 10)
    /\ ~std_is_zero(baseline_data[variable])

\* whether the loop body runs for the variable, or continue skips it
variable_scanned(baseline_data, variable) ==
    /\ variable \in DOMAIN baseline_data
    /\ ~(Len(baseline_data[variable]) < min_baseline)
    /\ ~std_is_zero(baseline_data[variable])

\* the anomaly of one float for one variable, as a list of zero or one record
float_anomaly(xs, entry, float_ids, variable) ==
    IF variable \notin DOMAIN entry.measurements THEN <<>>
    ELSE LET v == entry.measurements[variable]
         IN  IF z_score_exceeds(v, xs) /\ entry.float_id \in float_ids
             THEN <<[float_id |-> entry.float_id, variable |-> variable, value |-> v,
                     direction |-> direction_of(v, xs), context |-> context_of(variable, direction_of(v, xs))]>>
             ELSE <<>>

\* _detect_anomalies: the anomaly texts in the order they are appended, each
\* as the record of what the text states
_detect_anomalies(baseline_data, latest_measurements, float_ids, variables) ==
    Flatten([i \in 1..Len(variables) |->
        IF variable_scanned(baseline_data, variables[i])
        THEN Flatten([k \in 1..Len(latest_measurements) |-> float_anomaly(baseline_data[variables[i]], latest_measurements[k], float_ids, variables[i])])
        ELSE <<>>])

-----------------------------------------------------------------------------
(* services/geospatial.py: the data summary of a query                     *)

\* variable_map
variable_map == {"temperature", "salinity", "pressure", "dissolved_oxygen", "ph", "nitrate", "chlorophyll"}

\* select_from(Measurement).join(Profile): the rows of every profile of f
JoinedRows(st, f) == Flatten([i \in 1..Len(st[f].profiles) |-> st[f].profiles[i].measurements])

\* The non-null values of a column over the measurements of the profiles of
\* the floats in float_ids
column_values(st, float_ids, variable) ==
    LET order == SetToSeq(float_ids \cap FloatIdsOf(st))
    IN  ValuesOf(Flatten([k \in 1..Len(order) |-> JoinedRows(st, order[k])]), variable)

\* The row of the aggregate query of one column: count, sum (avg is
\* sum / count), sum of squares, min and max of the non-null values; min and
\* max are NULL (None) when there is no value
aggregate_row(st, float_ids, variable) ==
    LET xs == column_values(st, float_ids, variable)
    IN  [count |-> Len(xs), sum |-> Sum(xs), sumsq |-> SumSq(xs),
         min |-> IF xs = <<>> THEN None ELSE <<CHOOSE x \in {xs[i] : i \in 1..Len(xs)} : \A i \in 1..Len(xs) : x <= xs[i]>>,
         max |-> IF xs = <<>> THEN None ELSE <<CHOOSE x \in {xs[i] : i \in 1..Len(xs)} : \A i \in 1..Len(xs) : x >= xs[i]>>]

\* The dictionary built from a row: float(x) if x else None turns NULL and 0
\* into None.  The mean is the fraction sum / count; stddev is held by its
\* square, the fraction (n q - s^2) / (n (n - 1)) of the sample variance
\* (stddev is stddev_samp, NULL for a single value).
statistics_of_row(row) ==
    [count |-> row.count,
     mean |-> IF row.sum # 0 THEN <<[num |-> row.sum, den |-> row.count]>> ELSE None,
     min |-> IF row.min # None /\ row.min[1] # 0 THEN row.min ELSE None,
     max |-> IF row.max # None /\ row.max[1] # 0 THEN row.max ELSE None,
     stddev |-> IF row.count > 1 /\ row.count * row.sumsq - row.sum * row.sum # 0
                THEN <<[num |-> row.count * row.sumsq - row.sum * row.sum, den |-> row.count * (row.count - 1)]>>
                ELSE None]

\* A seeded fault: the test row.count > 0 left out
_calculate_variable_statistics_of_every_variable(st, float_ids, variables) ==
    [v \in {variables[i] : i \in {j \in 1..Len(variables) : variables[j] \in variable_map}} |->
        statistics_of_row(aggregate_row(st, float_ids, v))]

\* _calculate_variable_statistics: the dictionary of the requested variables
\* that are keys of variable_map and have count > 0
_calculate_variable_statistics(st, float_ids, variables) ==
    [v \in {variables[i] : i \in {j \in 1..Len(variables) : variables[j] \in variable_map /\ aggregate_row(st, float_ids, variables[j]).count > 0}} |->
        statistics_of_row(aggregate_row(st, float_ids, v))]

\* formatting a statistic that is None with :.2f raises
stat_is_none(s) == s.mean = None \/ s.min = None \/ s.max = None

\* summary['variable_statistics'], present only when variables were asked
\* and some statistic exists; the empty dictionary stands for its absence
variable_statistics(st, floats, p) ==
    IF floats # {} /\ p.variables # <<>> THEN _calculate_variable_statistics(st, floats, p.variables) ELSE <<>>

-----------------------------------------------------------------------------
(* api/v1/endpoints/ai_query.py                                            *)

\* A response of a handler.  status_code 200 is the handler's return value,
\* 500 the HTTPException of its except clause.
Response(kind, parameters, floats, detail) == [status_code |-> 200, kind |-> kind, parameters |-> parameters, floats |-> floats, detail |-> detail]

ErrorResponse(parameters) == [status_code |-> 500, kind |-> "error", parameters |-> parameters, floats |-> {}, detail |-> <<>>]

RECURSIVE IntOf(_)
\* int(s) for a str of digits
IntOf(ds) == IF ds = <<>> THEN 0 ELSE 10 * IntOf(SubSeq(ds, 1, Len(ds) - 1)) + (CHOOSE d \in 0..9 : <<"0","1","2","3","4","5","6","7","8","9">>[d + 1] = ds[Len(ds)])

RECURSIVE StrOf(_)
\* str(n) for n >= 0
StrOf(n) == IF n < 10 THEN <<<<"0","1","2","3","4","5","6","7","8","9">>[n + 1]>> ELSE StrOf(n \div 10) \o <<<<"0","1","2","3","4","5","6","7","8","9">>[(n % 10) + 1]>>

\* int(float_id_str) succeeds
IsInt(ds) == ds # <<>> /\ \A i \in 1..Len(ds) : ds[i] \in DigitChars

\* _handle_float_id_query
_handle_float_id_query(st, float_id) ==
    LET found == {f \in FloatIdsOf(st) : f = float_id \/ st[f].wmo_id = StrOf(float_id)}
        count(f) == IF f \in FloatIdsOf(st) THEN Len(st[f].profiles) ELSE 0
    IN  IF Cardinality(found) > 1 THEN ErrorResponse(QueryParameters(NoArgs))
        ELSE IF found = {} THEN Response("float_id", QueryParameters(NoArgs), {}, [float_count |-> 0, profile_count |-> 0, summary_profile_count |-> 0])
        ELSE LET float_obj == CHOOSE f \in found : TRUE
             IN  Response("float_id", QueryParameters(NoArgs), {float_obj},
                          [float_count |-> 1, profile_count |-> count(float_id), summary_profile_count |-> count(float_obj)])

\* ['temperature', 'salinity'], the variables of a comparison that names none
default_comparison_variables == <<"temperature", "salinity">>

\* higher = oceans[0] if diff > 0 else oceans[1], for
\* diff = stats1['mean'] - stats2['mean']
higher_of(oceans, stats1, stats2) == IF stats1.mean[1].num * stats2.mean[1].den > stats2.mean[1].num * stats1.mean[1].den THEN oceans[1] ELSE oceans[2]

\* _handle_comparison_query: the possible responses
_handle_comparison_query(st, oceans, variables0) ==
    LET variables == IF variables0 = <<>> THEN default_comparison_variables ELSE variables0
        params(k) == QueryParameters([NoArgs EXCEPT !.location = oceans[k], !.variables = variables])
        runs == {r \in [1..Len(oceans) -> UNION {query_floats_by_parameters(st, params(k), 100) : k \in 1..Len(oceans)}] :
                    \A k \in 1..Len(oceans) : r[k] \in query_floats_by_parameters(st, params(k), 100)}
        stats(r, k) == variable_statistics(st, r[k].floats, params(k))
        common(r) == {variables[i] : i \in {j \in 1..Len(variables) : variables[j] \in DOMAIN stats(r, 1) /\ variables[j] \in DOMAIN stats(r, 2)}}
    IN  {IF \E k \in 1..Len(oceans) : r[k].outcome = "raise" THEN ErrorResponse(QueryParameters(NoArgs))
         ELSE IF Len(oceans) < 2 THEN ErrorResponse(QueryParameters(NoArgs))
         ELSE IF \E k \in 1..Len(oceans) : \E v \in DOMAIN stats(r, k) : stat_is_none(stats(r, k)[v]) THEN ErrorResponse(QueryParameters(NoArgs))
         ELSE Response("comparison", QueryParameters([NoArgs EXCEPT !.variables = variables]),
                       UNION {r[k].floats : k \in 1..Len(oceans)},
                       [float_count |-> Sum([k \in 1..Len(oceans) |-> Cardinality(r[k].floats)]),
                        regions |-> oceans,
                        statistics |-> [k \in 1..Len(oceans) |-> stats(r, k)],
                        higher |-> IF Len(oceans) = 2 THEN [v \in common(r) |-> higher_of(oceans, stats(r, 1)[v], stats(r, 2)[v])] ELSE <<>>]) :
         r \in runs}

\* The generic query of process_ai_query (steps 2 to 4)
generic_query(st, parameters) ==
    {IF q.outcome = "raise" THEN ErrorResponse(parameters)
     ELSE Response("query", parameters, q.floats, [float_count |-> Cardinality(q.floats), variable_statistics |-> variable_statistics(st, q.floats, parameters)]) :
     q \in query_floats_by_parameters(st, parameters, 100)}

\* The requests after the irrelevance test: float id, comparison, generic.
\* replace('FLOAT_ID:', '') and replace('COMPARISON:', '') remove the prefix:
\* the terms of the model hold the sentinel once, at the start.
routed_query(st, parameters, fault) ==
    LET term == parameters.general_search_term
        float_id_str == SubSeq(term, Len(FLOAT_ID_PREFIX) + 1, Len(term))
    IN  IF term # None /\ StartsWith(term, FLOAT_ID_PREFIX) /\ IsInt(float_id_str)
        THEN {IF fault = "search" THEN ErrorResponse(parameters) ELSE _handle_float_id_query(st, IntOf(float_id_str))}
        ELSE IF term # None /\ StartsWith(term, COMPARISON_PREFIX)
        THEN _handle_comparison_query(st, SplitComma(SubSeq(term, Len(COMPARISON_PREFIX) + 1, Len(term))), parameters.variables)
        ELSE generic_query(st, parameters)

\* process_ai_query, the handler of POST /api/v1/ai/query: the possible
\* responses.  The irrelevance test reads parameters.status once location
\* and variables are both empty.  fault "search" is the failure of the
\* storage read of the request.
ai_query_responses(st, cfg, question, llm, fault) ==
    LET parameters == process_query(cfg, question, llm)
    IN  IF parameters.location = None /\ parameters.variables = <<>>
        THEN IF ~HasAttr(parameters, "status") THEN {ErrorResponse(parameters)}
             ELSE IF parameters.status = None /\ parameters.general_search_term = None
             THEN {Response("irrelevant", parameters, {}, [float_count |-> 0, profile_count |-> 0])}
             ELSE routed_query(st, parameters, fault)
        ELSE routed_query(st, parameters, fault)

-----------------------------------------------------------------------------
(* main.py: process_intelligent_query, the handler of POST /api/v1/query   *)

\* the variables the anomaly detector is run for
anomaly_scope == {"temperature", "salinity", "dissolved_oxygen"}

\* A seeded fault: every requested variable handed to the detector
anomaly_variables_unfiltered(variables) == variables

\* anomaly_variables = [v for v in parameters.variables if v in [...]]
anomaly_variables(variables) == Flatten([i \in 1..Len(variables) |-> Item(variables[i] \in anomaly_scope, variables[i])])

\* len(float_summaries) > 10
large_result == 10

\* recommendations[:5]
max_recommendations == 5

\* _generate_recommendations
_generate_recommendations(parameters, floats, anomaly_insights) ==
    LET has(v) == \E i \in 1..Len(parameters.variables) : parameters.variables[i] = v
        all == Item(anomaly_insights # <<>>, "investigate anomalous floats")
               \o Item(anomaly_insights # <<>>, "compare with satellite data")
               \o Item(anomaly_insights # <<>>, "check ocean current patterns")
               \o (IF floats # {}
                   THEN Item(Cardinality(floats) > large_result, "filter by region")
                        \o Item(has("temperature"), "temperature profiles")
                        \o Item(has("salinity"), "salinity gradients")
                        \o Item(has("dissolved_oxygen"), "oxygen levels")
                   ELSE <<"expand search criteria", "broader regions">>)
               \o Item(~(HasAttr(parameters, "start_date") /\ parameters.start_date # None), "add temporal constraints")
    IN  SubSeq(all, 1, IF Len(all) < max_recommendations THEN Len(all) ELSE max_recommendations)

\* Steps 3 to 6 for one result of the float search: the possible responses
intelligent_response(st, parameters, floats, fault, now) ==
    LET av == anomaly_variables(parameters.variables)
        detect == floats # {} /\ parameters.variables # <<>> /\ av # <<>>
        anomaly_lists == IF detect
                         THEN {_detect_anomalies(b, l, floats, av) :
                                 b \in get_recent_measurements_for_anomaly_detection(st, floats, av, now, fault = "baseline"),
                                 l \in get_latest_measurements_for_floats(st, floats, av, fault = "latest")}
                         ELSE {<<>>}
    IN  {Response("query", parameters, floats,
                  [float_count |-> Cardinality(floats), anomalies |-> a,
                   recommendations |-> _generate_recommendations(parameters, floats, a)]) : a \in anomaly_lists}

\* process_intelligent_query: the possible responses.  fault names the
\* storage read that fails in this request, "none" when none does; a failed
\* float search is re-raised and ends in the handler's except clause.
intelligent_query_responses(st, cfg, question, llm, fault, now) ==
    LET parameters == process_ai_query(cfg, question, llm)
    IN  IF fault = "search" THEN {ErrorResponse(parameters)}
        ELSE UNION {intelligent_response(st, parameters, floats, fault, now) : floats \in find_floats_by_params(st, parameters)}

-----------------------------------------------------------------------------
(* The stores, configurations and requests of the model                    *)

Measurement(pressure, values) == [pressure |-> pressure, values |-> values]

Profile(timestamp, longitude, latitude, measurements) == [timestamp |-> timestamp, latitude |-> latitude, longitude |-> longitude, measurements |-> measurements]

Float(wmo_id, status, institution, profiles) == [wmo_id |-> wmo_id, status |-> status, institution |-> institution, project_name |-> None, pi_name |-> None, platform_type |-> <<"A","P","E","X">>, profiles |-> profiles]

\* The day the requests are served (utcnow), as a day number
Today == 100

\* positions (longitude, latitude) of float 1: inside the Pacific box only,
\* on the corner of the Pacific box that lies in the Atlantic box, inside the
\* Atlantic box only
Positions1 == {<<-140, 35>>, <<-70, 60>>, <<-30, 30>>}

\* float 1: one recent profile with one temperature measurement
Floats1 == {Float(<<"1","2">>, s, <<"N","O","A","A">>, <<Profile(90, xy[1], xy[2], <<Measurement(5, "temperature" :> 1500)>>)>>) :
                s \in {"active", "inactive"}, xy \in Positions1}

\* float 2: one old profile whose measurement has dissolved oxygen only,
\* temperature and salinity, or no value at all; or no profile and a
\* principal investigator whose name holds the search term "noaa"
Floats2 == {Float(<<"2","1">>, "inactive", <<"C","S","I","R","O">>, <<Profile(40, -30, 30, <<Measurement(20, "dissolved_oxygen" :> 20000)>>)>>),
            Float(<<"2","1">>, "maintenance", <<"C","S","I","R","O">>, <<Profile(40, 80, 0, <<Measurement(20, ("temperature" :> 1000) @@ ("salinity" :> 3500))>>)>>),
            Float(<<"2","1">>, "maintenance", <<"C","S","I","R","O">>, <<Profile(40, -30, 30, <<Measurement(20, "dissolved_oxygen" :> 20000)>>)>>),
            Float(<<"2","1">>, "inactive", <<"C","S","I","R","O">>, <<Profile(40, 80, 0, <<Measurement(20, <<>>)>>)>>),
            [Float(<<"2","1">>, "active", <<"C","S","I","R","O">>, <<>>) EXCEPT !.pi_name = <<"N","o","a","a"," ","L","e","e">>]}

\* ten measurements at 10, 20, ..., 90 and 1000 dbar, the deepest with
\* temperature deep and the others with temperature 1000; all with salinity
\* 3500
TenMeasurements(deep) == [k \in 1..10 |-> Measurement(IF k = 10 THEN 1000 ELSE 10 * k, ("temperature" :> IF k = 10 THEN deep ELSE 1000) @@ ("salinity" :> 3500))]

\* float 3, when present: an old profile in the Pacific box and a recent one
\* in the Atlantic box with ten measurements
Floats3 == {Float(<<"7">>, "active", None, <<Profile(30, -150, 10, <<Measurement(5, "temperature" :> 900)>>), Profile(95, -20, 40, TenMeasurements(deep))>>) :
                deep \in {1000, 2000, 100}}

Stores == {(1 :> f1) @@ (2 :> f2) : f1 \in Floats1, f2 \in Floats2}
          \cup {(1 :> f1) @@ (2 :> f2) @@ (3 :> f3) : f1 \in {Float(<<"1","2">>, "active", <<"N","O","A","A">>, <<Profile(90, -140, 35, <<Measurement(5, "temperature" :> 1500)>>)>>)}, f2 \in Floats2, f3 \in Floats3}

Configs == {[groq_api_key |-> TRUE], [groq_api_key |-> FALSE]}

\* the storage read that fails while a request is served
StorageFaults == {"none", "search", "baseline", "latest"}

\* no extractor call is made (no API key)
LlmNotCalled == [kind |-> "not_called", data |-> NoArgs, frag_location |-> FALSE, frag_variables |-> FALSE]

\* Criteria the extractor may return
JsonCriteria ==
    {[NoArgs EXCEPT !.bbox = b] : b \in {<<-140, 30, -30, 35>>, <<-180, -60, -70, 60>>, <<0, 0, 10, 10>>, <<10, 10, 0, 0>>}}
    \cup {[NoArgs EXCEPT !.bbox = <<-140, 30, -30, 35>>, !.variables = <<"temperature">>]}
    \cup {[NoArgs EXCEPT !.location = l] : l \in {PacificOcean, <<"M","a","r","s">>}}
    \cup {[NoArgs EXCEPT !.location = PacificOcean, !.bbox = <<10, 10, 0, 0>>]}
    \cup {[NoArgs EXCEPT !.variables = v] : v \in {<<"dissolved_oxygen">>, <<"temperature", "dissolved_oxygen">>, <<"salinity", "temperature">>, <<"turbidity">>, <<"pressure", "temperature">>}}
    \cup {[NoArgs EXCEPT !.status = <<s>>] : s \in {"active", "inactive"}}
    \cup {[NoArgs EXCEPT !.status = <<"maintenance">>, !.variables = <<"temperature">>]}
    \cup {[NoArgs EXCEPT !.general_search_term = t] : t \in {<<"n","o","a","a">>, <<"F","L","O","A","T","_","I","D",":","1","2">>}}
    \cup {[NoArgs EXCEPT !.location = AtlanticOcean, !.general_search_term = t] : t \in {<<"F","L","O","A","T","_","I","D",":","3">>, <<"F","L","O","A","T","_","I","D",":","7">>, <<"C","O","M","P","A","R","I","S","O","N",":","P","a","c","i","f","i","c"," ","O","c","e","a","n",",","A","t","l","a","n","t","i","c"," ","O","c","e","a","n">>}}
    \cup {[NoArgs EXCEPT !.start_date = <<80>>, !.end_date = <<95>>], [NoArgs EXCEPT !.start_date = <<90>>], [NoArgs EXCEPT !.end_date = <<40>>]}
    \cup {[NoArgs EXCEPT !.depth_range = <<0, 100>>, !.variables = <<"temperature">>]}
    \cup {[NoArgs EXCEPT !.depth_range = d] : d \in {<<50, 100>>, <<100, 0>>}}

LlmFailures == {LlmError, LlmTimeout, LlmNonDict, LlmText(FALSE, None, FALSE, <<>>), LlmText(TRUE, PacificOcean, FALSE, <<>>), LlmText(FALSE, None, TRUE, <<>>)}

LlmOutcomes == LlmFailures \cup {LlmJson(kw) : kw \in JsonCriteria}


Questions == {<<"f","i","n","d"," ","f","l","o","a","t","s"," ","i","n"," ","p","a","c","i","f","i","c"," ","o","c","e","a","n">>, <<"s","h","o","w"," ","o","x","y","g","e","n"," ","d","a","t","a">>, <<"s","h","o","w"," ","m","e"," ","a","c","t","i","v","e"," ","f","l","o","a","t","s">>, <<"f","i","n","d"," ","i","n","a","c","t","i","v","e"," ","f","l","o","a","t","s">>, <<"h","e","l","l","o">>,
              <<"c","o","m","p","a","r","e"," ","t","e","m","p","e","r","a","t","u","r","e"," ","b","e","t","w","e","e","n"," ","p","a","c","i","f","i","c"," ","a","n","d"," ","a","t","l","a","n","t","i","c">>, <<"f","l","o","a","t"," ","1","2">>, <<"T","e","m","p","e","r","a","t","u","r","e"," ","i","n"," ","A","t","l","a","n","t","i","c"," ","O","c","e","a","n">>, <<"w","h","i","c","h"," ","f","l","o","a","t","s"," ","a","r","e"," ","i","n"," ","m","a","i","n","t","e","n","a","n","c","e">>}

NoRequest == [endpoint |-> "none", question |-> <<>>, llm |-> LlmNotCalled, fault |-> "none"]

NoResponse == [status_code |-> 0, kind |-> "none", parameters |-> QueryParameters(NoArgs), floats |-> {}, detail |-> <<>>]

-----------------------------------------------------------------------------
(* Spec: the two query handlers over a store                               *)

\* The calls a client makes: a question and what the extractor call of the
\* request returns.  Without an API key no call is made; a JSON answer
\* does not depend on the question.
Calls(cfg) ==
    IF ~cfg.groq_api_key THEN {<<q, LlmNotCalled>> : q \in Questions}
    ELSE {<<q, llm>> : q \in Questions, llm \in LlmFailures}
         \cup {<<q, LlmJson(kw)>> : q \in {<<"h","e","l","l","o">>, <<"f","i","n","d"," ","f","l","o","a","t","s"," ","i","n"," ","p","a","c","i","f","i","c"," ","o","c","e","a","n">>}, kw \in JsonCriteria}

Init ==
    /\ store \in Stores
    /\ config \in Configs
    /\ req = NoRequest
    /\ resp = NoResponse

\* POST /api/v1/query
ProcessIntelligentQuery ==
    /\ req = NoRequest
    /\ \E call \in Calls(config), fault \in StorageFaults :
        \E r \in intelligent_query_responses(store, config, call[1], call[2], fault, Today) :
            /\ req' = [endpoint |-> "/api/v1/query", question |-> call[1], llm |-> call[2], fault |-> fault]
            /\ resp' = r
            /\ UNCHANGED <<store, config>>

\* POST /api/v1/ai/query
ProcessAiQuery ==
    /\ req = NoRequest
    /\ \E call \in Calls(config), fault \in {"none", "search"} :
        \E r \in ai_query_responses(store, config, call[1], call[2], fault) :
            /\ req' = [endpoint |-> "/api/v1/ai/query", question |-> call[1], llm |-> call[2], fault |-> fault]
            /\ resp' = r
            /\ UNCHANGED <<store, config>>

\* The response is sent; the next request can be served
SendResponse ==
    /\ req # NoRequest
    /\ req' = NoRequest
    /\ resp' = NoResponse
    /\ UNCHANGED <<store, config>>

Next == ProcessIntelligentQuery \/ ProcessAiQuery \/ SendResponse

Spec == Init /\ [][Next]_vars

-----------------------------------------------------------------------------
(* SpecExtract: the two extraction services on questions built from words  *)

\* The longest question built from the vocabulary, in words
MaxWords == 3

Vocabulary == <<<<"h","e","l","l","o">>, <<"t","h","a","n","k","s">>, <<"i","d">>, <<"1","2">>, <<"t","e","m","p","e","r","a","t","u","r","e">>, <<"P","a","c","i","f","i","c">>, <<"w","e","a","t","h","e","r">>>>

RECURSIVE JoinSpace(_)
\* ' '.join(ws)
JoinSpace(ws) == IF ws = <<>> THEN <<>> ELSE IF Len(ws) = 1 THEN Vocabulary[ws[1]] ELSE Vocabulary[ws[1]] \o <<" ">> \o JoinSpace(Tail(ws))

WordQuestions == {JoinSpace(ws) : ws \in UNION {[1..n -> 1..Len(Vocabulary)] : n \in 1..MaxWords}}

\* questions of eight words and more
LongQuestions == {<<"h","e","l","l","o"," ","t","h","e","r","e"," ","h","o","w"," ","a","r","e"," ","y","o","u"," ","d","o","i","n","g"," ","t","o","d","a","y"," ","m","y"," ","f","r","i","e","n","d">>, <<"h","i"," ","c","a","n"," ","y","o","u"," ","t","e","l","l"," ","m","e"," ","a","b","o","u","t"," ","t","h","e"," ","i","n","a","c","t","i","v","e"," ","o","n","e","s"," ","p","l","e","a","s","e">>}

ExtractQuestions == WordQuestions \cup LongQuestions \cup Questions

\* what the extractor call returns in SpecExtract
ExtractOutcomes == LlmFailures \cup {LlmJson([NoArgs EXCEPT !.bbox = <<10, 10, 0, 0>>]), LlmJson([NoArgs EXCEPT !.location = AtlanticOcean, !.status = <<"active">>])}

ExtractCalls(cfg) == IF cfg.groq_api_key THEN ExtractOutcomes ELSE {LlmNotCalled}

InitExtract ==
    /\ store = <<>>
    /\ config \in Configs
    /\ req = NoRequest
    /\ resp = NoResponse

\* POST /api/v1/ai/extract-parameters: AIService.process_query
ExtractQueryParameters ==
    /\ req = NoRequest
    /\ \E question \in ExtractQuestions, llm \in ExtractCalls(config) :
            /\ req' = [endpoint |-> "/api/v1/ai/extract-parameters", question |-> question, llm |-> llm, fault |-> "none"]
            /\ resp' = Response("parameters", process_query(config, question, llm), {}, <<>>)
            /\ UNCHANGED <<store, config>>

\* process_natural_language_query: AIQueryService.process_ai_query
ProcessNaturalLanguageQuery ==
    /\ req = NoRequest
    /\ \E question \in ExtractQuestions, llm \in ExtractCalls(config) :
            /\ req' = [endpoint |-> "process_natural_language_query", question |-> question, llm |-> llm, fault |-> "none"]
            /\ resp' = Response("parameters", process_ai_query(config, question, llm), {}, <<>>)
            /\ UNCHANGED <<store, config>>

NextExtract == ExtractQueryParameters \/ ProcessNaturalLanguageQuery \/ SendResponse

SpecExtract == InitExtract /\ [][NextExtract]_vars

-----------------------------------------------------------------------------
(* SpecAnomaly: _detect_anomalies on drawn baselines and latest values     *)

\* n values of mean 1000 with sum of squared deviations 90000: for n = 10
\* (mean 10.00, sigma 1.00 in hundredths) the sample variance is 10000
Sample(n) == <<850, 1150, 850, 1150>> \o [k \in 1..(n - 4) |-> 1000]

\* the baseline lists of a variable: 9, 10 and 11 values, 10 equal values
BaselineSamples == {Sample(9), Sample(10), Sample(11), [k \in 1..10 |-> 1000]}

\* baseline_data: the variables that have a key, each with its list
BaselineData == UNION {[vs -> BaselineSamples] : vs \in SUBSET {"temperature", "salinity"}} \cup {"dissolved_oxygen" :> Sample(10)}

\* the latest values of a float: 12.00, 12.01, 8.00 and 7.99
LatestValues == {1200, 1201, 800, 799}

\* latest_measurements: an entry of float 1 with a temperature and possibly
\* a salinity or a dissolved oxygen, followed or not by an entry of float 2
\* with a temperature of 12.00, 12.01 or 13.00
LatestMeasurements ==
    {<<[float_id |-> 1, measurements |-> m]>> \o e2 :
        m \in {"temperature" :> t : t \in LatestValues} \cup {("temperature" :> t) @@ ("salinity" :> 1201) : t \in {1200, 1201}}
              \cup {("temperature" :> 1200) @@ ("salinity" :> 799)} \cup {("temperature" :> 1200) @@ ("dissolved_oxygen" :> o) : o \in {799, 1201}},
        e2 \in {<<>>} \cup {<<[float_id |-> 2, measurements |-> "temperature" :> t]>> : t \in {1200, 1201, 1300}}}

AnomalyVariables == {<<"temperature">>, <<"temperature", "salinity">>, <<"salinity", "temperature">>, <<"dissolved_oxygen">>}

NoCall == [endpoint |-> "none", baseline_data |-> <<>>, latest_measurements |-> <<>>, float_ids |-> {}, variables |-> <<>>]

InitAnomaly ==
    /\ store = <<>>
    /\ config \in Configs
    /\ req = NoCall
    /\ resp = NoResponse

\* _detect_anomalies(baseline_data, latest_measurements, float_ids, variables)
DetectAnomalies ==
    /\ req = NoCall
    /\ \E b \in BaselineData, l \in LatestMeasurements, ids \in {{1}, {1, 2}}, vs \in AnomalyVariables :
            /\ req' = [endpoint |-> "_detect_anomalies", baseline_data |-> b, latest_measurements |-> l, float_ids |-> ids, variables |-> vs]
            /\ resp' = Response("anomalies", QueryParameters(NoArgs), ids, _detect_anomalies(b, l, ids, vs))
            /\ UNCHANGED <<store, config>>

\* the call returns
ReturnAnomalies ==
    /\ req # NoCall
    /\ req.endpoint = "_detect_anomalies"
    /\ req' = NoCall
    /\ resp' = NoResponse
    /\ UNCHANGED <<store, config>>

NextAnomaly == DetectAnomalies \/ ReturnAnomalies

SpecAnomaly == InitAnomaly /\ [][NextAnomaly]_vars

-----------------------------------------------------------------------------
(* SpecLarge: the two query handlers over a store with more floats than    *)
(* a query returns                                                          *)

\* One float more than LIMIT lets through.  Float 1 has a recent profile in
\* the Pacific box with a temperature; the others have no profile yet.
LargeStore ==
    [f \in 1..(crud_limit + 1) |->
        Float(StrOf(1000 + f), IF f % 2 = 1 THEN "active" ELSE "inactive", <<"N","O","A","A">>,
              IF f = 1 THEN <<Profile(90, -140, 35, <<Measurement(5, "temperature" :> 1500)>>)>> ELSE <<>>)]

InitLarge ==
    /\ store = LargeStore
    /\ config \in Configs
    /\ req = NoRequest
    /\ resp = NoResponse

SpecLarge == InitLarge /\ [][Next]_vars

-----------------------------------------------------------------------------
(* SpecService: the depth filter, the spatial step and the aggregation of   *)
(* GeospatialQueryService, called on their own.  A statistics call made     *)
(* while earlier calls are still remembered keeps the first statistics call *)
(* of the run in req.earlier, so that a repeated call can be compared with  *)
(* it; ReturnService forgets the run.                                       *)

\* Stores of three floats.  Float 1 has one measurement at 102 dbar with a
\* temperature t1 and a salinity; float 2 one at 103 dbar with temperature
\* t2 and one at 300 dbar with no value; float 3 one at 50 dbar with a
\* temperature and, in a later profile, one at 101 dbar with dissolved
\* oxygen only.  Values are in hundredths.
ServiceStores ==
    {(1 :> Float(<<"1","2">>, "active", <<"N","O","A","A">>, <<Profile(90, -140, 35, <<Measurement(102, ("temperature" :> t1) @@ ("salinity" :> 3500))>>)>>))
     @@ (2 :> Float(<<"2","1">>, "active", <<"C","S","I","R","O">>, <<Profile(80, -30, 30, <<Measurement(103, "temperature" :> t2), Measurement(300, <<>>)>>)>>))
     @@ (3 :> Float(<<"7">>, "inactive", None, <<Profile(60, 80, 0, <<Measurement(50, "temperature" :> 250)>>), Profile(70, 80, 0, <<Measurement(101, "dissolved_oxygen" :> 20)>>)>>)) :
        t1 \in {0, 250, -150}, t2 \in {250, -150}}

\* depth intervals in meters: [0, 100] is [0, 102] dbar, [100, 200] is
\* [102, 204], [101, 250] is [103.02, 255], [50, 75] is [51, 76.5] and
\* [0, 49] is [0, 49.98]
DepthRanges == {<<0, 100>>, <<100, 200>>, <<101, 250>>, <<50, 75>>, <<0, 49>>}

\* the float sets and variable lists of the statistics calls
StatisticsFloatIds == {{1}, {3}, {1, 2}, {2, 3}, {1, 2, 3}}

StatisticsVariables == {<<"temperature">>, <<"temperature", "salinity">>, <<"dissolved_oxygen", "ph">>, <<"pressure">>, <<"turbidity", "temperature">>}

NoServiceCall == [endpoint |-> "none", depth_range |-> None, float_ids |-> {}, variables |-> <<>>, earlier |-> <<>>]

InitService ==
    /\ store \in ServiceStores
    /\ config = [groq_api_key |-> FALSE]
    /\ req = NoServiceCall
    /\ resp = NoResponse

\* the first statistics call of the run, once a later call is made;
\* interleaved tells that other calls were made after it
Earlier ==
    IF req.endpoint = "_calculate_variable_statistics" /\ req.earlier = <<>>
    THEN <<[float_ids |-> req.float_ids, variables |-> req.variables, statistics |-> resp.detail, interleaved |-> FALSE]>>
    ELSE IF req.earlier = <<>> THEN <<>>
    ELSE <<[req.earlier[1] EXCEPT !.interleaved = TRUE]>>

\* A seeded fault: the depth query deletes the rows of the floats it selects
ApplyDepthFilter_deleting ==
    \E depth_range \in DepthRanges :
        /\ req' = [endpoint |-> "_apply_depth_filter", depth_range |-> depth_range, float_ids |-> {}, variables |-> <<>>, earlier |-> Earlier]
        /\ resp' = Response("floats", QueryParameters([NoArgs EXCEPT !.depth_range = depth_range]), _apply_depth_filter(store, depth_range), <<>>)
        /\ store' = [f \in DOMAIN store |-> IF f \in _apply_depth_filter(store, depth_range) THEN [store[f] EXCEPT !.profiles = <<>>] ELSE store[f]]
        /\ UNCHANGED config

\* select(Float) with the depth filter, executed
ApplyDepthFilter ==
    \E depth_range \in DepthRanges :
        /\ req' = [endpoint |-> "_apply_depth_filter", depth_range |-> depth_range, float_ids |-> {}, variables |-> <<>>, earlier |-> Earlier]
        /\ resp' = Response("floats", QueryParameters([NoArgs EXCEPT !.depth_range = depth_range]), _apply_depth_filter(store, depth_range), <<>>)
        /\ UNCHANGED <<store, config>>

\* _calculate_variable_statistics(session, float_ids, variables)
CalculateVariableStatistics ==
    \E float_ids \in StatisticsFloatIds, variables \in StatisticsVariables :
        /\ req' = [endpoint |-> "_calculate_variable_statistics", depth_range |-> None, float_ids |-> float_ids, variables |-> variables, earlier |-> Earlier]
        /\ resp' = Response("statistics", QueryParameters([NoArgs EXCEPT !.variables = variables]), float_ids, _calculate_variable_statistics(store, float_ids, variables))
        /\ UNCHANGED <<store, config>>

\* location names: one key, two keys with the later of the table named
\* first, a key and its alias in upper case, two keys with the earlier of
\* the table named last, and no key
LocationNames == {PacificOcean, <<"S","o","u","t","h"," ","A","t","l","a","n","t","i","c">>, <<"S","O","U","T","H","E","R","N"," ","O","C","E","A","N">>, <<"I","n","d","i","a","n"," ","a","n","d"," ","P","a","c","i","f","i","c">>, <<"M","a","r","s">>}

\* explicit boxes: none, or one around float 3 only
SpatialBoxes == {None, <<0, -10, 100, 10>>}

\* select(Float) with the spatial step of query_floats_by_parameters (the
\* box when there is one, else the location name), executed
ApplySpatialFilter ==
    \E location \in LocationNames, bbox \in SpatialBoxes :
        /\ req' = [endpoint |-> "_apply_location_filter", location |-> location, bbox |-> bbox, depth_range |-> None, float_ids |-> {}, variables |-> <<>>, earlier |-> Earlier]
        /\ resp' = Response("floats", QueryParameters([NoArgs EXCEPT !.location = location, !.bbox = bbox]), geo_matching(store, [NoArgs EXCEPT !.location = location, !.bbox = bbox]), <<>>)
        /\ UNCHANGED <<store, config>>

\* the run ends
ReturnService ==
    /\ req # NoServiceCall
    /\ req' = NoServiceCall
    /\ resp' = NoResponse
    /\ UNCHANGED <<store, config>>

NextService == ApplyDepthFilter \/ CalculateVariableStatistics \/ ApplySpatialFilter \/ ReturnService

SpecService == InitService /\ [][NextService]_vars

-----------------------------------------------------------------------------
(* SpecConcurrent: two requests of POST /api/v1/query in flight.  The       *)
(* handler gives up control at each await (the extraction, the float        *)
(* search, the baseline read, the latest-measurement read), so the steps of *)
(* the two requests interleave; req and resp hold one entry per request,    *)
(* req[i] with the locals of the handler.                                  *)

Slots == {1, 2}

ConcurrentStores == {st \in Stores : 3 \in DOMAIN st}

\* the calls of the concurrent clients
ConcurrentCalls(cfg) ==
    IF ~cfg.groq_api_key THEN {<<q, LlmNotCalled>> : q \in {<<"T","e","m","p","e","r","a","t","u","r","e"," ","i","n"," ","A","t","l","a","n","t","i","c"," ","O","c","e","a","n">>, <<"h","e","l","l","o">>}}
    ELSE {<<<<"h","e","l","l","o">>, LlmJson(kw)>> : kw \in {[NoArgs EXCEPT !.general_search_term = <<"n","o","a","a">>],
                                              [NoArgs EXCEPT !.variables = <<"salinity", "temperature">>],
                                              [NoArgs EXCEPT !.start_date = <<90>>]}}

NoQuery == [pc |-> "idle", question |-> <<>>, llm |-> LlmNotCalled, parameters |-> QueryParameters(NoArgs), floats |-> {}, baseline_data |-> <<>>, latest_measurements |-> <<>>]

InitConcurrent ==
    /\ store \in ConcurrentStores
    /\ config \in Configs
    /\ req = [i \in Slots |-> NoQuery]
    /\ resp = [i \in Slots |-> NoResponse]

\* if float_summaries and parameters.variables: ... if anomaly_variables:
DetectionRuns(q) == q.floats # {} /\ q.parameters.variables # <<>> /\ anomaly_variables(q.parameters.variables) # <<>>

\* Step 1: parameters = await ai_query_service.process_ai_query(question)
ExtractParameters(i) ==
    /\ req[i].pc = "idle"
    /\ \E call \in ConcurrentCalls(config) :
            req' = [req EXCEPT ![i] = [NoQuery EXCEPT !.pc = "extracted", !.question = call[1], !.llm = call[2],
                                                      !.parameters = process_ai_query(config, call[1], call[2])]]
    /\ UNCHANGED <<store, config, resp>>

\* Step 2: float_summaries = await find_floats_by_params(db, parameters)
FindFloats(i) ==
    /\ req[i].pc = "extracted"
    /\ \E floats \in find_floats_by_params(store, req[i].parameters) :
            req' = [req EXCEPT ![i].pc = "searched", ![i].floats = floats]
    /\ UNCHANGED <<store, config, resp>>

\* Step 3: baseline_data = await get_recent_measurements_for_anomaly_detection(...)
ReadBaseline(i) ==
    /\ req[i].pc = "searched"
    /\ DetectionRuns(req[i])
    /\ \E b \in get_recent_measurements_for_anomaly_detection(store, req[i].floats, anomaly_variables(req[i].parameters.variables), Today, FALSE) :
            req' = [req EXCEPT ![i].pc = "baseline", ![i].baseline_data = b]
    /\ UNCHANGED <<store, config, resp>>

\* A seeded fault: the float ids of the read are kept in an attribute of the
\* service, which the search of the other request has overwritten
ReadLatest_of_shared_ids(i) ==
    /\ req[i].pc = "baseline"
    /\ LET other == CHOOSE j \in Slots : j # i
           float_ids == IF req[other].pc \in {"searched", "baseline", "latest", "done"} THEN req[other].floats ELSE req[i].floats
       IN  \E l \in get_latest_measurements_for_floats(store, float_ids, anomaly_variables(req[i].parameters.variables), FALSE) :
                req' = [req EXCEPT ![i].pc = "latest", ![i].latest_measurements = l]
    /\ UNCHANGED <<store, config, resp>>

\* Step 3: latest_measurements = await get_latest_measurements_for_floats(...)
ReadLatest(i) ==
    /\ req[i].pc = "baseline"
    /\ \E l \in get_latest_measurements_for_floats(store, req[i].floats, anomaly_variables(req[i].parameters.variables), FALSE) :
            req' = [req EXCEPT ![i].pc = "latest", ![i].latest_measurements = l]
    /\ UNCHANGED <<store, config, resp>>

\* Steps 3 to 6 after the last read: _detect_anomalies, the recommendations
\* and the response
BuildResponse(i) ==
    /\ req[i].pc = (IF DetectionRuns(req[i]) THEN "latest" ELSE "searched")
    /\ LET q == req[i]
           a == IF DetectionRuns(q)
                THEN _detect_anomalies(q.baseline_data, q.latest_measurements, q.floats, anomaly_variables(q.parameters.variables))
                ELSE <<>>
       IN  resp' = [resp EXCEPT ![i] = Response("query", q.parameters, q.floats,
                                                [float_count |-> Cardinality(q.floats), anomalies |-> a,
                                                 recommendations |-> _generate_recommendations(q.parameters, q.floats, a)])]
    /\ req' = [req EXCEPT ![i].pc = "done"]
    /\ UNCHANGED <<store, config>>

\* The response is sent and the locals of the request are gone
SendQueryResponse(i) ==
    /\ req[i].pc = "done"
    /\ req' = [req EXCEPT ![i] = NoQuery]
    /\ resp' = [resp EXCEPT ![i] = NoResponse]
    /\ UNCHANGED <<store, config>>

NextConcurrent ==
    \E i \in Slots : ExtractParameters(i) \/ FindFloats(i) \/ ReadBaseline(i) \/ ReadLatest(i) \/ BuildResponse(i) \/ SendQueryResponse(i)

SpecConcurrent == InitConcurrent /\ [][NextConcurrent]_vars

-----------------------------------------------------------------------------
(* The claims                                                              *)

\* the request is one of the two query endpoints
QueryServed == req.endpoint \in {"/api/v1/query", "/api/v1/ai/query"}

\* The criteria the extraction service of the request hands to the handler
Criteria ==
    IF req.endpoint = "/api/v1/query" THEN process_ai_query(config, req.question, req.llm)
    ELSE process_query(config, req.question, req.llm)

\* The status the extraction names when it builds the criteria
StatusAsked ==
    IF req.llm.kind = "json" THEN (IF QueryParametersValid(req.llm.data) THEN req.llm.data.status ELSE None)
    ELSE IF req.endpoint = "/api/v1/ai/query" /\ process_query_falls_back(config, req.llm) THEN basic_arguments(req.question).status
    ELSE None

\* float f of the store has a profile in the closed box b
HasProfileIn(f, b) ==
    \E i \in 1..Len(store[f].profiles) :
        /\ b[1] <= store[f].profiles[i].longitude /\ store[f].profiles[i].longitude <= b[3]
        /\ b[2] <= store[f].profiles[i].latitude /\ store[f].profiles[i].latitude <= b[4]

\* C1: every float in the result of a query whose criteria carry a valid
\* bounding box [minLon, minLat, maxLon, maxLat] has at least one profile
\* with longitude in [minLon, maxLon] and latitude in [minLat, maxLat],
\* bounds inclusive.
C1_ReturnedFloatsLieInBox ==
    (QueryServed /\ resp.kind = "query" /\ resp.parameters.bbox # None)
        => \A f \in resp.floats : HasProfileIn(f, resp.parameters.bbox)

\* C1 happens: a query with the box [-140, 30, -30, 35] returns float 1,
\* whose only profile lies on the corner (-140, 35) of the box, and leaves
\* out another float of the store
C1_Witness ==
    /\ req.endpoint = "/api/v1/query"
    /\ resp.kind = "query"
    /\ resp.parameters.bbox = <<-140, 30, -30, 35>>
    /\ 1 \in resp.floats
    /\ store[1].profiles[1].longitude = -140 /\ store[1].profiles[1].latitude = 35
    /\ \E f \in DOMAIN store : f \notin resp.floats

\* the criteria name a location and nothing else
OnlyLocation(p) ==
    /\ p.location # None /\ p.bbox = None /\ p.start_date = None /\ p.end_date = None
    /\ p.variables = <<>> /\ p.depth_range = None /\ p.general_search_term = None

\* C2: a query whose only criterion is a location name of the region table
\* returns exactly the floats that have at least one profile inside that
\* region's box, on every endpoint that accepts criteria with a location.
C2_LocationOnlyReturnsRegionFloats ==
    (QueryServed /\ OnlyLocation(Criteria) /\ StatusAsked = None /\ req.fault = "none" /\ lower(Criteria.location) = <<"p","a","c","i","f","i","c"," ","o","c","e","a","n">>)
        => /\ resp.status_code = 200
           /\ resp.floats = {f \in DOMAIN store : HasProfileIn(f, <<-180, -60, -70, 60>>)}

\* the criteria name variables and nothing else
OnlyVariables(p) ==
    /\ p.variables # <<>> /\ p.location = None /\ p.bbox = None /\ p.start_date = None /\ p.end_date = None
    /\ p.depth_range = None /\ p.general_search_term = None

\* a measurement of float f has a non-null value for a variable of vs
HasValueOf(f, vs) ==
    \E i \in 1..Len(store[f].profiles) : \E k \in 1..Len(store[f].profiles[i].measurements) : \E j \in 1..Len(vs) :
        vs[j] = "pressure" \/ vs[j] \in DOMAIN store[f].profiles[i].measurements[k].values

\* C3: with a non-empty requested variable list (and no other criterion) a
\* float is returned iff at least one of its measurements has a non-null
\* value for at least one requested variable.
C3_VariableFilterIsOr ==
    (QueryServed /\ OnlyVariables(Criteria) /\ StatusAsked = None /\ req.fault = "none")
        => resp.floats = {f \in DOMAIN store : HasValueOf(f, Criteria.variables)}

\* the response holds an anomaly of float f for the variable
Flagged(f, variable) == \E k \in 1..Len(resp.detail) : resp.detail[k].float_id = f /\ resp.detail[k].variable = variable

\* The drawn baseline lists with spread have mean 1000 and squared
\* deviations summing to 90000, so with n values sigma^2 = 90000 / (n - 1):
\* the list xs has at least ten values that are not all equal
Scannable(xs) == Len(xs) >= 10 /\ \E k \in 1..Len(xs) : xs[k] # xs[1]

\* C4: a float's latest value v for a scanned variable is flagged iff
\* z = |v - mean| / sigma is strictly greater than 2.0, with direction
\* "high" iff v is above the mean: with mean 10.00 and sigma 1.00 the value
\* 12.00 is not flagged and 12.01 is flagged "high".
C4_FlaggedIffZAboveTwo ==
    req.endpoint = "_detect_anomalies" =>
        \A k \in 1..Len(req.latest_measurements), i \in 1..Len(req.variables) :
            LET e == req.latest_measurements[k]
                variable == req.variables[i]
            IN  (/\ variable \in DOMAIN req.baseline_data
                 /\ Scannable(req.baseline_data[variable])
                 /\ variable \in DOMAIN e.measurements
                 /\ e.float_id \in req.float_ids)
                => LET v == e.measurements[variable]
                       n == Len(req.baseline_data[variable])
                   IN  /\ Flagged(e.float_id, variable) <=> (v - 1000) * (v - 1000) * (n - 1) > 2 * 2 * 90000
                       /\ \A j \in 1..Len(resp.detail) :
                            (resp.detail[j].float_id = e.float_id /\ resp.detail[j].variable = variable)
                                => /\ resp.detail[j].value = v
                                   /\ resp.detail[j].direction = IF v > 1000 THEN "high" ELSE "low"

\* C4 happens: against the ten-value baseline of mean 10.00 and sigma 1.00,
\* float 1 at 12.01 is flagged "high" and float 2 at 12.00 is not flagged
C4_Witness ==
    /\ req.endpoint = "_detect_anomalies"
    /\ "temperature" \in DOMAIN req.baseline_data
    /\ req.baseline_data["temperature"] = Sample(10)
    /\ req.float_ids = {1, 2}
    /\ Len(req.latest_measurements) = 2
    /\ req.latest_measurements[1].measurements["temperature"] = 1201
    /\ req.latest_measurements[2].measurements["temperature"] = 1200
    /\ \E j \in 1..Len(resp.detail) : resp.detail[j].float_id = 1 /\ resp.detail[j].variable = "temperature" /\ resp.detail[j].direction = "high"
    /\ ~Flagged(2, "temperature")

\* the anomalies of the response that are about the variable
AnomaliesOf(variable) == {k \in 1..Len(resp.detail) : resp.detail[k].variable = variable}

\* C5: a variable is scanned iff its baseline list has at least 10 values
\* and a non-zero standard deviation: no anomaly is emitted for a variable
\* with no list, with 9 values or with equal values; with 10 values of mean
\* 10.00 and sigma 1.00 the floats at 12.01 and 7.99 are flagged; the call
\* returns its list whatever is skipped, and the other variables are scanned.
C5_ScannedIffTenValuesAndSpread ==
    req.endpoint = "_detect_anomalies" =>
        /\ resp.status_code = 200
        /\ \A i \in 1..Len(req.variables) :
            LET variable == req.variables[i]
            IN  IF variable \in DOMAIN req.baseline_data /\ Scannable(req.baseline_data[variable])
                THEN \A k \in 1..Len(req.latest_measurements) :
                        LET e == req.latest_measurements[k]
                        IN  (/\ e.float_id \in req.float_ids
                             /\ variable \in DOMAIN e.measurements
                             /\ e.measurements[variable] \in {1201, 799})
                            => Flagged(e.float_id, variable)
                ELSE AnomaliesOf(variable) = {}

\* C5 happens: salinity has 9 baseline values and temperature 10; float 1 is
\* at 12.01 for both; the call returns the temperature anomaly and none for
\* salinity
C5_Witness ==
    /\ req.endpoint = "_detect_anomalies"
    /\ req.variables = <<"salinity", "temperature">>
    /\ DOMAIN req.baseline_data = {"temperature", "salinity"}
    /\ Len(req.baseline_data["salinity"]) = 9
    /\ Len(req.baseline_data["temperature"]) = 10
    /\ req.latest_measurements[1].measurements = ("temperature" :> 1201) @@ ("salinity" :> 1201)
    /\ resp.status_code = 200
    /\ Flagged(1, "temperature")
    /\ AnomaliesOf("salinity") = {}

\* the regions of the comparison the criteria ask for
ComparedRegions == SplitComma(SubSeq(Criteria.general_search_term, Len(COMPARISON_PREFIX) + 1, Len(Criteria.general_search_term)))

\* the criteria route the request to the comparison of two regions
ComparisonAsked ==
    /\ req.endpoint = "/api/v1/ai/query"
    /\ req.fault = "none"
    /\ Criteria.general_search_term # None
    /\ StartsWith(Criteria.general_search_term, COMPARISON_PREFIX)
    /\ Len(ComparedRegions) = 2

\* C6: compare(A, B) and compare(B, A) over the same store and variable
\* list report the same per-region statistics and, for every variable
\* present in both regions, name the same region as "higher".
C6_ComparisonSymmetric ==
    ComparisonAsked =>
        /\ resp.status_code = 200
        /\ \A swapped \in _handle_comparison_query(store, <<ComparedRegions[2], ComparedRegions[1]>>, Criteria.variables) :
            /\ swapped.status_code = 200
            /\ swapped.detail.statistics = <<resp.detail.statistics[2], resp.detail.statistics[1]>>
            /\ swapped.detail.higher = resp.detail.higher

\* the extractor call failed, timed out, or returned output that is not
\* criteria: no JSON, JSON that is no object, or values the validators reject
ExtractorFailed(llm) ==
    \/ llm.kind \in {"error", "timeout", "text", "nondict"}
    \/ llm.kind = "json" /\ ~QueryParametersValid(llm.data)

\* C7: whenever the extractor call fails, times out or returns output that
\* cannot be parsed into criteria, the criteria of the request are those of
\* the keyword fallback on the original question.
C7_FailureFallsBackToKeywords ==
    /\ (req.endpoint = "/api/v1/ai/extract-parameters" /\ ExtractorFailed(req.llm))
            => resp.parameters = _extract_basic_parameters(req.question)
    /\ (req.endpoint = "process_natural_language_query" /\ ExtractorFailed(req.llm))
            => resp.parameters = _fallback_extraction(req.question)

\* the storage read named by the fault of the request is made: the float
\* search of POST /api/v1/query; its baseline and latest reads, made when
\* floats were found and an anomaly variable is asked; the lookup of the
\* float-id route of POST /api/v1/ai/query
FailedReadIsMade ==
    \/ req.endpoint = "/api/v1/query" /\ req.fault = "search"
    \/ /\ req.endpoint = "/api/v1/query" /\ req.fault \in {"baseline", "latest"}
       /\ crud_matching(store, Criteria) # {}
       /\ anomaly_variables(Criteria.variables) # <<>>
    \/ /\ req.endpoint = "/api/v1/ai/query" /\ req.fault = "search"
       /\ resp.kind # "irrelevant"

\* C8: if a storage read made while serving a query fails, the request ends
\* with a reported internal error, never with a successful response.
C8_StorageFailureIsReported ==
    FailedReadIsMade => resp.status_code = 500

\* the question has no oceanographic keyword, fewer than 8 words and a
\* casual-greeting keyword
CasualQuestion(q) ==
    /\ ~AnyIn(oceanographic_keywords, lower(q))
    /\ WordCount(q) < 8
    /\ AnyIn(casual_phrases, lower(q))

\* C9: for every question with no oceanographic keyword, fewer than 8 words
\* and a casual-greeting keyword, the keyword fallback returns criteria with
\* every field empty.
C9_CasualQuestionGivesEmptyCriteria ==
    (req.endpoint \in {"/api/v1/ai/extract-parameters", "process_natural_language_query"} /\ ~config.groq_api_key /\ CasualQuestion(req.question))
        => resp.parameters = QueryParameters(NoArgs)

\* C10: when the criteria carry a status, the query completes with a result
\* and every float of the result has exactly that status.
C10_StatusFilterApplied ==
    (QueryServed /\ req.fault = "none" /\ StatusAsked # None)
        => /\ resp.status_code = 200
           /\ \A f \in resp.floats : <<store[f].status>> = StatusAsked

\* the float has a profile in the box of the first region of the table that
\* the location names; a location that names no region restricts nothing
InRegionOf(f, location) ==
    matched_regions(location) # {} =>
        HasProfileIn(f, region_bounds[CHOOSE k \in matched_regions(location) : \A j \in matched_regions(location) : k <= j][2])

\* the float has a profile with a timestamp in [start, end], a missing bound
\* being unbounded
HasProfileWithin(f, start_date, end_date) ==
    \E i \in 1..Len(store[f].profiles) :
        /\ start_date # None => store[f].profiles[i].timestamp >= start_date[1]
        /\ end_date # None => store[f].profiles[i].timestamp <= end_date[1]

\* the float has a measurement with pressure in [1.02 d1, 1.02 d2]
HasPressureWithin(f, depth_range) ==
    \E i \in 1..Len(store[f].profiles) : \E k \in 1..Len(store[f].profiles[i].measurements) :
        /\ 100 * store[f].profiles[i].measurements[k].pressure >= 102 * depth_range[1]
        /\ 100 * store[f].profiles[i].measurements[k].pressure <= 102 * depth_range[2]

\* a text field of the float contains the term, case-insensitively
HasTextMatch(f, term) ==
    \E column \in {store[f].institution, store[f].project_name, store[f].pi_name, store[f].platform_type, store[f].wmo_id} :
        column # None /\ IsIn(lower(term), lower(column))

\* the float satisfies every filter the criteria p supply
SatisfiesSupplied(f, p) ==
    /\ p.bbox # None => HasProfileIn(f, p.bbox)
    /\ (p.bbox = None /\ p.location # None) => InRegionOf(f, p.location)
    /\ (p.start_date # None \/ p.end_date # None) => HasProfileWithin(f, p.start_date, p.end_date)
    /\ p.variables # <<>> => HasValueOf(f, p.variables)
    /\ p.depth_range # None => HasPressureWithin(f, p.depth_range)
    /\ p.general_search_term # None => HasTextMatch(f, p.general_search_term)

\* C11: for every combination of supplied criteria, a float is returned by a
\* query only if it satisfies the spatial, temporal, variable-availability,
\* depth and text filters that were supplied, each evaluated over all of the
\* float's profiles and measurements.
C11_ResultWithinEveryFilter ==
    (QueryServed /\ resp.kind = "query")
        => \A f \in resp.floats : SatisfiesSupplied(f, resp.parameters)

C13_DepthFilterUsesConvertedPressure ==
    req.endpoint = "_apply_depth_filter" =>
        /\ resp.floats = {f \in DOMAIN store : HasPressureWithin(f, req.depth_range)}
        /\ req.depth_range = <<0, 100>> =>
            resp.floats = {f \in DOMAIN store : \E i \in 1..Len(store[f].profiles) : \E k \in 1..Len(store[f].profiles[i].measurements) :
                                store[f].profiles[i].measurements[k].pressure \in 0..102}

\* C13 happens: for [0, 100] meters float 1, measured at 102 dbar only,
\* passes and float 2, measured at 103 and 300 dbar, does not
C13_Witness ==
    /\ req.endpoint = "_apply_depth_filter"
    /\ req.depth_range = <<0, 100>>
    /\ store[1].profiles[1].measurements[1].pressure = 102
    /\ store[2].profiles[1].measurements[1].pressure = 103
    /\ 1 \in resp.floats
    /\ 2 \notin resp.floats

\* the smallest and the largest value of a non-empty list
Smallest(xs) == CHOOSE x \in {xs[i] : i \in 1..Len(xs)} : \A i \in 1..Len(xs) : x <= xs[i]

Largest(xs) == CHOOSE x \in {xs[i] : i \in 1..Len(xs)} : \A i \in 1..Len(xs) : x >= xs[i]

\* the statistics reported for the variable are those of the list xs of its
\* non-null values: count, mean sum / count, min, max and, for two values
\* and more, the sample variance (n q - s^2) / (n (n - 1))
ReportsStatisticsOf(variable, xs) ==
    /\ variable \in DOMAIN resp.detail
    /\ resp.detail[variable].count = Len(xs)
    /\ resp.detail[variable].mean = <<[num |-> Sum(xs), den |-> Len(xs)]>>
    /\ resp.detail[variable].min = <<Smallest(xs)>>
    /\ resp.detail[variable].max = <<Largest(xs)>>
    /\ Len(xs) >= 2 => resp.detail[variable].stddev = <<[num |-> Len(xs) * SumSq(xs) - Sum(xs) * Sum(xs), den |-> Len(xs) * (Len(xs) - 1)]>>

\* C14: for every float set and every requested variable with at least one
\* non-null value in it, the reported statistics are the count of the
\* non-null values over all measurements of all profiles of the floats, the
\* smallest value, the largest value, the arithmetic mean and the sample
\* standard deviation, for all values including 0 and negative values.
C14_StatisticsAreExact ==
    req.endpoint = "_calculate_variable_statistics" =>
        \A i \in 1..Len(req.variables) :
            column_values(store, req.float_ids, req.variables[i]) # <<>>
                => ReportsStatisticsOf(req.variables[i], column_values(store, req.float_ids, req.variables[i]))

\* C15: the statistics map has a key for a requested variable iff that
\* variable has count > 0 in the float set; a variable with no non-null
\* value is absent from the map, never present with null statistics.
C15_KeyIffCountPositive ==
    req.endpoint = "_calculate_variable_statistics" =>
        /\ \A i \in 1..Len(req.variables) :
            req.variables[i] \in DOMAIN resp.detail <=> Len(column_values(store, req.float_ids, req.variables[i])) > 0
        /\ \A v \in DOMAIN resp.detail :
            /\ \E i \in 1..Len(req.variables) : req.variables[i] = v
            /\ resp.detail[v].count > 0

\* C15 happens: dissolved oxygen and pH are requested for float 3, which has
\* one dissolved-oxygen value and no pH value; the map has the key
\* dissolved_oxygen only
C15_Witness ==
    /\ req.endpoint = "_calculate_variable_statistics"
    /\ req.variables = <<"dissolved_oxygen", "ph">>
    /\ req.float_ids = {3}
    /\ DOMAIN resp.detail = {"dissolved_oxygen"}
    /\ resp.detail["dissolved_oxygen"].count = 1

\* the statistics call repeats the first statistics call of the run: same
\* float set, same variable list
RepeatsEarlierCall ==
    /\ req.endpoint = "_calculate_variable_statistics"
    /\ req.earlier # <<>>
    /\ req.earlier[1].float_ids = req.float_ids
    /\ req.earlier[1].variables = req.variables

InvalidCriteria ==
    /\ config.groq_api_key
    /\ req.llm.kind = "json"
    /\ ~(validate_bbox(req.llm.data.bbox) /\ validate_depth_range(req.llm.data.depth_range))

\* C17: criteria with a malformed bounding box or depth interval never reach
\* the filters: the request ends with an error reported to the caller, and
\* no float query is executed for it (the response carries no result).
C17_InvalidCriteriaAreRejected ==
    (QueryServed /\ InvalidCriteria) =>
        /\ resp.status_code # 200
        /\ resp.floats = {}

\* the place of a variable in the scan order of the anomaly detector
ScanRank(variable) == IF variable = "temperature" THEN 1 ELSE IF variable = "salinity" THEN 2 ELSE 3

\* n |v - mean| of an anomaly record against the n baseline values of its
\* variable: records of one variable are ordered by z-score as by this
Deviation(a) ==
    LET xs == req.baseline_data[a.variable]
        d == Len(xs) * a.value - Sum(xs)
    IN  IF d < 0 THEN -d ELSE d

\* record a may come before record b
MayPrecede(a, b) ==
    \/ ScanRank(a.variable) < ScanRank(b.variable)
    \/ /\ a.variable = b.variable
       /\ \/ Deviation(a) > Deviation(b)
          \/ Deviation(a) = Deviation(b) /\ a.float_id <= b.float_id

\* C18: the emitted anomaly records are ordered by variable in a fixed scan
\* order, then by z-score descending, with ties broken by float id
\* ascending, for every baseline sample and every set of latest
\* measurements.
C18_AnomaliesAreOrdered ==
    req.endpoint = "_detect_anomalies" =>
        \A j, k \in 1..Len(resp.detail) : j < k => MayPrecede(resp.detail[j], resp.detail[k])

\* the measurements of the most recent profile of float f, and the
\* surface-most among them: those of minimum pressure
RecentMeasurements(f) ==
    UNION {{store[f].profiles[i].measurements[k] : k \in 1..Len(store[f].profiles[i].measurements)} :
            i \in {j \in 1..Len(store[f].profiles) : \A l \in 1..Len(store[f].profiles) : store[f].profiles[l].timestamp <= store[f].profiles[j].timestamp}}

SurfaceMost(f) == {m \in RecentMeasurements(f) : \A n \in RecentMeasurements(f) : m.pressure <= n.pressure}

FallbackExtracts ==
    /\ req.endpoint = "/api/v1/ai/extract-parameters"
    /\ ~config.groq_api_key
    /\ FirstFloatId(lower(req.question), 1) = <<>>
    /\ ~AnyIn(irrelevant_keywords, lower(req.question))
    /\ ~CasualQuestion(req.question)

\* the status keyword of a question: inactive, maintenance, or active when
\* the question does not contain inactive
StatusKeyword(q) ==
    IF IsIn(<<"i","n","a","c","t","i","v","e">>, lower(q)) THEN <<"inactive">>
    ELSE IF IsIn(<<"m","a","i","n","t","e","n","a","n","c","e">>, lower(q)) THEN <<"maintenance">>
    ELSE IF IsIn(<<"a","c","t","i","v","e">>, lower(q)) THEN <<"active">>
    ELSE None

\* C20: when the fallback extractor processes a question containing a status
\* keyword, the extracted status is that keyword: inactive for a question
\* containing "inactive", maintenance for one containing "maintenance",
\* active for one containing "active" but not "inactive".
C20_FallbackExtractsStatusKeyword ==
    (FallbackExtracts /\ StatusKeyword(req.question) # None)
        => /\ HasAttr(resp.parameters, "status")
           /\ resp.parameters.status = StatusKeyword(req.question)

\* every field of the criteria is empty
AllEmpty(p) ==
    /\ p.location = None /\ p.bbox = None /\ p.start_date = None /\ p.end_date = None
    /\ p.variables = <<>> /\ p.depth_range = None /\ p.general_search_term = None
    /\ (HasAttr(p, "status") => p.status = None)

\* C21: a query is answered as an irrelevant query (rejection message, zero
\* floats, no filtering) iff every field of the extracted criteria is empty;
\* criteria with any non-empty field, also with only a bounding box, only a
\* date interval or only a depth interval, are executed as a normal query,
\* and the irrelevant outcome is a normal response, not an error.
C21_IrrelevantIffAllEmpty ==
    (req.endpoint = "/api/v1/ai/query" /\ req.fault = "none") =>
        /\ AllEmpty(Criteria) => (resp.status_code = 200 /\ resp.kind = "irrelevant" /\ resp.floats = {})
        /\ ~AllEmpty(Criteria) => (resp.status_code = 200 /\ resp.kind \in {"query", "float_id", "comparison"})

\* the recognised oceans a lower-cased question names, in the table's order
OceansNamed(ql) ==
    Item(IsIn(<<"p","a","c","i","f","i","c">>, ql), PacificOcean) \o Item(IsIn(<<"a","t","l","a","n","t","i","c">>, ql), AtlanticOcean)
    \o Item(IsIn(<<"i","n","d","i","a","n">>, ql), IndianOcean) \o Item(IsIn(<<"a","r","c","t","i","c">>, ql), ArcticOcean)
    \o Item(IsIn(<<"s","o","u","t","h","e","r","n">>, ql) \/ IsIn(<<"s","o","u","t","h">>, ql), SouthernOcean)

HasComparisonWord(ql) == IsIn(<<"c","o","m","p","a","r","e">>, ql) \/ IsIn(<<"b","e","t","w","e","e","n">>, ql) \/ IsIn(<<"v","e","r","s","u","s">>, ql) \/ IsIn(<<"v","s">>, ql)

CarriesFloatId(p) ==
    /\ p.general_search_term # None /\ StartsWith(p.general_search_term, FLOAT_ID_PREFIX)
    /\ IsInt(SubSeq(p.general_search_term, Len(FLOAT_ID_PREFIX) + 1, Len(p.general_search_term)))

CarriesComparison(p) == p.general_search_term # None /\ StartsWith(p.general_search_term, COMPARISON_PREFIX)

\* the floats a float-id sentinel designates: internal id n or WMO id "n"
Designated(p) ==
    LET n == IntOf(SubSeq(p.general_search_term, Len(FLOAT_ID_PREFIX) + 1, Len(p.general_search_term)))
    IN  {f \in FloatIdsOf(store) : f = n \/ store[f].wmo_id = StrOf(n)}

\* C22: a question that names two or more recognised oceans and contains
\* compare, between, versus or vs is encoded by the fallback extractor as the
\* comparison sentinel listing those oceans; a request whose criteria carry
\* the float-id sentinel is answered by the float-id handler and one whose
\* criteria carry the comparison sentinel is never answered by the generic
\* query with its text filter.
C22_SentinelsAreRouted ==
    (QueryServed /\ req.fault = "none") =>
        /\ (req.endpoint = "/api/v1/ai/query" /\ process_query_falls_back(config, req.llm)
                /\ Len(OceansNamed(lower(req.question))) >= 2 /\ HasComparisonWord(lower(req.question)))
            => Criteria.general_search_term = COMPARISON_PREFIX \o JoinComma(OceansNamed(lower(req.question)))
        /\ (CarriesFloatId(Criteria) /\ Cardinality(Designated(Criteria)) <= 1) => resp.kind = "float_id"
        /\ CarriesComparison(Criteria) => resp.kind \notin {"query", "irrelevant"}

\* the criteria supply a search term and nothing else
OnlyTerm(p) ==
    /\ p.general_search_term # None
    /\ p.location = None /\ p.bbox = None /\ p.start_date = None /\ p.end_date = None
    /\ p.variables = <<>> /\ p.depth_range = None
    /\ (HasAttr(p, "status") => p.status = None)

\* C23: on every query path that applies a text filter, a float matches iff
\* the search term is a case-insensitive substring of at least one of its
\* institution, project name, principal investigator name, platform type and
\* WMO id: a query whose only criterion is the term returns those floats.
C23_TextFilterColumns ==
    (QueryServed /\ req.fault = "none" /\ resp.kind = "query" /\ OnlyTerm(Criteria)) =>
        resp.floats = {f \in FloatIdsOf(store) : HasTextMatch(f, Criteria.general_search_term)}

\* the criteria supply a date bound and nothing else
OnlyDates(p) ==
    /\ (p.start_date # None \/ p.end_date # None)
    /\ p.location = None /\ p.bbox = None /\ p.general_search_term = None
    /\ p.variables = <<>> /\ p.depth_range = None
    /\ (HasAttr(p, "status") => p.status = None)

\* C24: a float passes the temporal filter iff at least one of its profiles
\* has a timestamp t with start <= t <= end, a missing bound being unbounded
\* on that side: a served query whose only criteria are dates returns exactly
\* those floats, and both temporal filters select exactly them.
C24_TemporalFilterIsInclusive ==
    (QueryServed /\ req.fault = "none" /\ (Criteria.start_date # None \/ Criteria.end_date # None)) =>
        LET within == {f \in FloatIdsOf(store) : HasProfileWithin(f, Criteria.start_date, Criteria.end_date)}
        IN  /\ crud_temporal_filter(store, Criteria.start_date, Criteria.end_date) = within
            /\ _apply_temporal_filter(store, Criteria.start_date, Criteria.end_date) = within
            /\ (resp.kind = "query" /\ OnlyDates(Criteria)) => resp.floats = within

\* a query with a start date only, met exactly by float 1's profile, while
\* float 2 has an earlier profile
C24_Witness ==
    /\ req.endpoint = "/api/v1/query" /\ req.fault = "none" /\ resp.kind = "query"
    /\ Criteria.start_date = <<90>> /\ Criteria.end_date = None /\ OnlyDates(Criteria)
    /\ store[1].profiles[1].timestamp = 90 /\ Len(store[2].profiles) = 1
    /\ resp.floats = {1}

\* the box the claim gives a lower-cased location name: that of the first
\* key of the table, in the table's order, that the name contains
ClaimedBox(ll) ==
    IF IsIn(<<"p","a","c","i","f","i","c">>, ll) THEN <<<<-180, -60, -70, 60>>>>
    ELSE IF IsIn(<<"a","t","l","a","n","t","i","c">>, ll) THEN <<<<-80, -60, 20, 70>>>>
    ELSE IF IsIn(<<"i","n","d","i","a","n">>, ll) THEN <<<<20, -60, 120, 30>>>>
    ELSE IF IsIn(<<"a","r","c","t","i","c">>, ll) THEN <<<<-180, 66, 180, 90>>>>
    ELSE IF IsIn(<<"s","o","u","t","h","e","r","n">>, ll) \/ IsIn(<<"s","o","u","t","h">>, ll) THEN <<<<-180, -90, 180, -60>>>>
    ELSE <<>>

\* C25: a location name is resolved by lower-casing it and taking the box of
\* the first region of the table (pacific, atlantic, indian, arctic,
\* southern, south) whose key it contains; a name that contains no key
\* restricts nothing, and an explicit bounding box is used instead of the
\* location name.
C25_LocationResolvedByFirstKey ==
    req.endpoint = "_apply_location_filter" =>
        resp.floats = {f \in FloatIdsOf(store) :
                          IF req.bbox # None THEN HasProfileIn(f, req.bbox)
                          ELSE ClaimedBox(lower(req.location)) # <<>> => HasProfileIn(f, ClaimedBox(lower(req.location))[1])}

\* "South Atlantic" contains the keys atlantic and south: the Atlantic box is
\* used and the float in the Atlantic is selected
C25_Witness ==
    /\ req.endpoint = "_apply_location_filter" /\ req.bbox = None
    /\ IsIn(<<"s","o","u","t","h">>, lower(req.location)) /\ IsIn(<<"a","t","l","a","n","t","i","c">>, lower(req.location))
    /\ resp.floats = {2}

C27_DirectionAndAnnotation ==
    req.endpoint = "_detect_anomalies" =>
        \A k \in 1..Len(resp.detail) :
            LET a == resp.detail[k]
            IN  /\ a.direction = (IF a.value > 1000 THEN "high" ELSE "low")
                /\ a.context = (IF a.variable = "temperature" /\ a.direction = "high" THEN "marine heatwave"
                                ELSE IF a.variable = "salinity" /\ a.direction = "low" THEN "freshwater input"
                                ELSE IF a.variable = "dissolved_oxygen" /\ a.direction = "low" THEN "hypoxic conditions"
                                ELSE "none")

\* a salinity of 7.99 against a mean of 10.00 is flagged low with its note,
\* in a call where the temperature of float 2 is flagged high with its note
C27_Witness ==
    /\ req.endpoint = "_detect_anomalies"
    /\ \E k \in 1..Len(resp.detail) :
            /\ resp.detail[k].variable = "salinity" /\ resp.detail[k].value = 799
            /\ resp.detail[k].direction = "low" /\ resp.detail[k].context = "freshwater input"
    /\ \E k \in 1..Len(resp.detail) :
            /\ resp.detail[k].variable = "temperature" /\ resp.detail[k].value = 1201
            /\ resp.detail[k].direction = "high" /\ resp.detail[k].context = "marine heatwave"

\* the priority sequence of the claim for the served request
ClaimedRecommendations ==
    LET asks(v) == \E i \in 1..Len(Criteria.variables) : Criteria.variables[i] = v
    IN  (IF resp.detail.anomalies # <<>>
         THEN <<"investigate anomalous floats", "compare with satellite data", "check ocean current patterns">> ELSE <<>>)
        \o Item(Cardinality(resp.floats) > 10, "filter by region")
        \o Item(asks("temperature"), "temperature profiles")
        \o Item(asks("salinity"), "salinity gradients")
        \o Item(asks("dissolved_oxygen"), "oxygen levels")
        \o Item(Criteria.location = None /\ Criteria.bbox = None, "broader regions")
        \o Item(Criteria.start_date = None /\ Criteria.end_date = None, "add temporal constraints")

\* C28: the recommendation list of a request has at most 5 entries and is a
\* prefix of the priority sequence: the anomaly suggestions when anomalies
\* were found, the narrow-by-region suggestion when the result is large, one
\* suggestion per requested variable among temperature, salinity and
\* dissolved_oxygen, the geography suggestion when no region was specified,
\* the temporal suggestion when no date interval was specified.
C28_RecommendationsFollowPriority ==
    (req.endpoint = "/api/v1/query" /\ resp.kind = "query") =>
        /\ Len(resp.detail.recommendations) <= 5
        /\ Len(resp.detail.recommendations) <= Len(ClaimedRecommendations)
        /\ resp.detail.recommendations = SubSeq(ClaimedRecommendations, 1, Len(resp.detail.recommendations))

\* every finished request holds a response it can produce when served alone
\* on the store
AnsweredAsAlone ==
    \A i \in Slots : req[i].pc = "done" =>
        resp[i] \in intelligent_query_responses(store, config, req[i].question, req[i].llm, "none", Today)

C30_FloatIdQueryReportsItsFloat ==
    (/\ req.endpoint = "/api/v1/ai/query" /\ req.fault = "none"
     /\ CarriesFloatId(Criteria)
     /\ (Criteria.location # None \/ Criteria.variables # <<>>)) =>
        /\ resp.status_code = 200
        /\ Cardinality(resp.floats) <= 1
        /\ resp.floats \subseteq Designated(Criteria)
        /\ Designated(Criteria) # {} => resp.floats # {}
        /\ \A f \in resp.floats : resp.detail.profile_count = Len(store[f].profiles)

=============================================================================
